---- MODULE Spec2Model ----
(***************************************************************************)
(* A model of prepare_inference_data.py: one run of main(), from the       *)
(* parsed command line to the exit code, with the local parquet file, the  *)
(* AkShare endpoint and the output CSV as the environment.                 *)
(*                                                                         *)
(* Strings are sequences of one-character strings.  A table is a record    *)
(* [cols, rows]: cols is the set of column names, every row a function     *)
(* from cols to cell values.  A cell value is an integer: 0 is a missing   *)
(* or unparseable cell, k >= 1 is the k-th timestamp (in a time column) or *)
(* the price k (in a close column).                                        *)
(***************************************************************************)
EXTENDS Integers, Sequences, FiniteSets, TLC

(***************************************************************************)
(* Bounds of the model.                                                    *)
(***************************************************************************)
\* rows of an arbitrary table, and the timestamps 1..MaxRows they carry
MaxRows == 2
\* --tail ranges over -1..MaxTail, and the default
MaxTail == 2
\* free characters of an arbitrary --symbol
MaxSymLen == 2
\* largest timestamp of the long, regular series
MaxLong == 14

(***************************************************************************)
(* Python strings.                                                         *)
(***************************************************************************)
\* the characters the pattern \D of a str does not match: the decimal digits
\* of Unicode (category Nd)
Digits ==
  {"0", "1", "2", "3", "4", "5", "6", "7", "8", "9", "U+0660", "U+0661",
   "U+0662", "U+0663", "U+0664", "U+0665", "U+0666", "U+0667", "U+0668",
   "U+0669", "U+06F0", "U+06F1", "U+06F2", "U+06F3", "U+06F4", "U+06F5",
   "U+06F6", "U+06F7", "U+06F8", "U+06F9", "U+07C0", "U+07C1", "U+07C2",
   "U+07C3", "U+07C4", "U+07C5", "U+07C6", "U+07C7", "U+07C8", "U+07C9",
   "U+0966", "U+0967", "U+0968", "U+0969", "U+096A", "U+096B", "U+096C",
   "U+096D", "U+096E", "U+096F", "U+09E6", "U+09E7", "U+09E8", "U+09E9",
   "U+09EA", "U+09EB", "U+09EC", "U+09ED", "U+09EE", "U+09EF", "U+0A66",
   "U+0A67", "U+0A68", "U+0A69", "U+0A6A", "U+0A6B", "U+0A6C", "U+0A6D",
   "U+0A6E", "U+0A6F", "U+0AE6", "U+0AE7", "U+0AE8", "U+0AE9", "U+0AEA",
   "U+0AEB", "U+0AEC", "U+0AED", "U+0AEE", "U+0AEF", "U+0B66", "U+0B67",
   "U+0B68", "U+0B69", "U+0B6A", "U+0B6B", "U+0B6C", "U+0B6D", "U+0B6E",
   "U+0B6F", "U+0BE6", "U+0BE7", "U+0BE8", "U+0BE9", "U+0BEA", "U+0BEB",
   "U+0BEC", "U+0BED", "U+0BEE", "U+0BEF", "U+0C66", "U+0C67", "U+0C68",
   "U+0C69", "U+0C6A", "U+0C6B", "U+0C6C", "U+0C6D", "U+0C6E", "U+0C6F",
   "U+0CE6", "U+0CE7", "U+0CE8", "U+0CE9", "U+0CEA", "U+0CEB", "U+0CEC",
   "U+0CED", "U+0CEE", "U+0CEF", "U+0D66", "U+0D67", "U+0D68", "U+0D69",
   "U+0D6A", "U+0D6B", "U+0D6C", "U+0D6D", "U+0D6E", "U+0D6F", "U+0DE6",
   "U+0DE7", "U+0DE8", "U+0DE9", "U+0DEA", "U+0DEB", "U+0DEC", "U+0DED",
   "U+0DEE", "U+0DEF", "U+0E50", "U+0E51", "U+0E52", "U+0E53", "U+0E54",
   "U+0E55", "U+0E56", "U+0E57", "U+0E58", "U+0E59", "U+0ED0", "U+0ED1",
   "U+0ED2", "U+0ED3", "U+0ED4", "U+0ED5", "U+0ED6", "U+0ED7", "U+0ED8",
   "U+0ED9", "U+0F20", "U+0F21", "U+0F22", "U+0F23", "U+0F24", "U+0F25",
   "U+0F26", "U+0F27", "U+0F28", "U+0F29", "U+1040", "U+1041", "U+1042",
   "U+1043", "U+1044", "U+1045", "U+1046", "U+1047", "U+1048", "U+1049",
   "U+1090", "U+1091", "U+1092", "U+1093", "U+1094", "U+1095", "U+1096",
   "U+1097", "U+1098", "U+1099", "U+17E0", "U+17E1", "U+17E2", "U+17E3",
   "U+17E4", "U+17E5", "U+17E6", "U+17E7", "U+17E8", "U+17E9", "U+1810",
   "U+1811", "U+1812", "U+1813", "U+1814", "U+1815", "U+1816", "U+1817",
   "U+1818", "U+1819", "U+1946", "U+1947", "U+1948", "U+1949", "U+194A",
   "U+194B", "U+194C", "U+194D", "U+194E", "U+194F", "U+19D0", "U+19D1",
   "U+19D2", "U+19D3", "U+19D4", "U+19D5", "U+19D6", "U+19D7", "U+19D8",
   "U+19D9", "U+1A80", "U+1A81", "U+1A82", "U+1A83", "U+1A84", "U+1A85",
   "U+1A86", "U+1A87", "U+1A88", "U+1A89", "U+1A90", "U+1A91", "U+1A92",
   "U+1A93", "U+1A94", "U+1A95", "U+1A96", "U+1A97", "U+1A98", "U+1A99",
   "U+1B50", "U+1B51", "U+1B52", "U+1B53", "U+1B54", "U+1B55", "U+1B56",
   "U+1B57", "U+1B58", "U+1B59", "U+1BB0", "U+1BB1", "U+1BB2", "U+1BB3",
   "U+1BB4", "U+1BB5", "U+1BB6", "U+1BB7", "U+1BB8", "U+1BB9", "U+1C40",
   "U+1C41", "U+1C42", "U+1C43", "U+1C44", "U+1C45", "U+1C46", "U+1C47",
   "U+1C48", "U+1C49", "U+1C50", "U+1C51", "U+1C52", "U+1C53", "U+1C54",
   "U+1C55", "U+1C56", "U+1C57", "U+1C58", "U+1C59", "U+A620", "U+A621",
   "U+A622", "U+A623", "U+A624", "U+A625", "U+A626", "U+A627", "U+A628",
   "U+A629", "U+A8D0", "U+A8D1", "U+A8D2", "U+A8D3", "U+A8D4", "U+A8D5",
   "U+A8D6", "U+A8D7", "U+A8D8", "U+A8D9", "U+A900", "U+A901", "U+A902",
   "U+A903", "U+A904", "U+A905", "U+A906", "U+A907", "U+A908", "U+A909",
   "U+A9D0", "U+A9D1", "U+A9D2", "U+A9D3", "U+A9D4", "U+A9D5", "U+A9D6",
   "U+A9D7", "U+A9D8", "U+A9D9", "U+A9F0", "U+A9F1", "U+A9F2", "U+A9F3",
   "U+A9F4", "U+A9F5", "U+A9F6", "U+A9F7", "U+A9F8", "U+A9F9", "U+AA50",
   "U+AA51", "U+AA52", "U+AA53", "U+AA54", "U+AA55", "U+AA56", "U+AA57",
   "U+AA58", "U+AA59", "U+ABF0", "U+ABF1", "U+ABF2", "U+ABF3", "U+ABF4",
   "U+ABF5", "U+ABF6", "U+ABF7", "U+ABF8", "U+ABF9", "U+FF10", "U+FF11",
   "U+FF12", "U+FF13", "U+FF14", "U+FF15", "U+FF16", "U+FF17", "U+FF18",
   "U+FF19", "U+104A0", "U+104A1", "U+104A2", "U+104A3", "U+104A4", "U+104A5",
   "U+104A6", "U+104A7", "U+104A8", "U+104A9", "U+10D30", "U+10D31",
   "U+10D32", "U+10D33", "U+10D34", "U+10D35", "U+10D36", "U+10D37",
   "U+10D38", "U+10D39", "U+11066", "U+11067", "U+11068", "U+11069",
   "U+1106A", "U+1106B", "U+1106C", "U+1106D", "U+1106E", "U+1106F",
   "U+110F0", "U+110F1", "U+110F2", "U+110F3", "U+110F4", "U+110F5",
   "U+110F6", "U+110F7", "U+110F8", "U+110F9", "U+11136", "U+11137",
   "U+11138", "U+11139", "U+1113A", "U+1113B", "U+1113C", "U+1113D",
   "U+1113E", "U+1113F", "U+111D0", "U+111D1", "U+111D2", "U+111D3",
   "U+111D4", "U+111D5", "U+111D6", "U+111D7", "U+111D8", "U+111D9",
   "U+112F0", "U+112F1", "U+112F2", "U+112F3", "U+112F4", "U+112F5",
   "U+112F6", "U+112F7", "U+112F8", "U+112F9", "U+11450", "U+11451",
   "U+11452", "U+11453", "U+11454", "U+11455", "U+11456", "U+11457",
   "U+11458", "U+11459", "U+114D0", "U+114D1", "U+114D2", "U+114D3",
   "U+114D4", "U+114D5", "U+114D6", "U+114D7", "U+114D8", "U+114D9",
   "U+11650", "U+11651", "U+11652", "U+11653", "U+11654", "U+11655",
   "U+11656", "U+11657", "U+11658", "U+11659", "U+116C0", "U+116C1",
   "U+116C2", "U+116C3", "U+116C4", "U+116C5", "U+116C6", "U+116C7",
   "U+116C8", "U+116C9", "U+11730", "U+11731", "U+11732", "U+11733",
   "U+11734", "U+11735", "U+11736", "U+11737", "U+11738", "U+11739",
   "U+118E0", "U+118E1", "U+118E2", "U+118E3", "U+118E4", "U+118E5",
   "U+118E6", "U+118E7", "U+118E8", "U+118E9", "U+11950", "U+11951",
   "U+11952", "U+11953", "U+11954", "U+11955", "U+11956", "U+11957",
   "U+11958", "U+11959", "U+11C50", "U+11C51", "U+11C52", "U+11C53",
   "U+11C54", "U+11C55", "U+11C56", "U+11C57", "U+11C58", "U+11C59",
   "U+11D50", "U+11D51", "U+11D52", "U+11D53", "U+11D54", "U+11D55",
   "U+11D56", "U+11D57", "U+11D58", "U+11D59", "U+11DA0", "U+11DA1",
   "U+11DA2", "U+11DA3", "U+11DA4", "U+11DA5", "U+11DA6", "U+11DA7",
   "U+11DA8", "U+11DA9", "U+16A60", "U+16A61", "U+16A62", "U+16A63",
   "U+16A64", "U+16A65", "U+16A66", "U+16A67", "U+16A68", "U+16A69",
   "U+16AC0", "U+16AC1", "U+16AC2", "U+16AC3", "U+16AC4", "U+16AC5",
   "U+16AC6", "U+16AC7", "U+16AC8", "U+16AC9", "U+16B50", "U+16B51",
   "U+16B52", "U+16B53", "U+16B54", "U+16B55", "U+16B56", "U+16B57",
   "U+16B58", "U+16B59", "U+1D7CE", "U+1D7CF", "U+1D7D0", "U+1D7D1",
   "U+1D7D2", "U+1D7D3", "U+1D7D4", "U+1D7D5", "U+1D7D6", "U+1D7D7",
   "U+1D7D8", "U+1D7D9", "U+1D7DA", "U+1D7DB", "U+1D7DC", "U+1D7DD",
   "U+1D7DE", "U+1D7DF", "U+1D7E0", "U+1D7E1", "U+1D7E2", "U+1D7E3",
   "U+1D7E4", "U+1D7E5", "U+1D7E6", "U+1D7E7", "U+1D7E8", "U+1D7E9",
   "U+1D7EA", "U+1D7EB", "U+1D7EC", "U+1D7ED", "U+1D7EE", "U+1D7EF",
   "U+1D7F0", "U+1D7F1", "U+1D7F2", "U+1D7F3", "U+1D7F4", "U+1D7F5",
   "U+1D7F6", "U+1D7F7", "U+1D7F8", "U+1D7F9", "U+1D7FA", "U+1D7FB",
   "U+1D7FC", "U+1D7FD", "U+1D7FE", "U+1D7FF", "U+1E140", "U+1E141",
   "U+1E142", "U+1E143", "U+1E144", "U+1E145", "U+1E146", "U+1E147",
   "U+1E148", "U+1E149", "U+1E2F0", "U+1E2F1", "U+1E2F2", "U+1E2F3",
   "U+1E2F4", "U+1E2F5", "U+1E2F6", "U+1E2F7", "U+1E2F8", "U+1E2F9",
   "U+1E950", "U+1E951", "U+1E952", "U+1E953", "U+1E954", "U+1E955",
   "U+1E956", "U+1E957", "U+1E958", "U+1E959", "U+1FBF0", "U+1FBF1",
   "U+1FBF2", "U+1FBF3", "U+1FBF4", "U+1FBF5", "U+1FBF6", "U+1FBF7",
   "U+1FBF8", "U+1FBF9"}

\* A character is a one-character string; a code point above U+00FF, which
\* a string of this module cannot hold, is written "U+XXXX".

\* str.upper on one character: Unicode's upper case, which may be longer
\* than one character; a character with no arm is its own upper case
UpperChar(c) ==
  CASE c = "a" -> <<"A">> [] c = "b" -> <<"B">> [] c = "c" -> <<"C">>
    [] c = "d" -> <<"D">> [] c = "e" -> <<"E">> [] c = "f" -> <<"F">>
    [] c = "g" -> <<"G">> [] c = "h" -> <<"H">> [] c = "i" -> <<"I">>
    [] c = "j" -> <<"J">> [] c = "k" -> <<"K">> [] c = "l" -> <<"L">>
    [] c = "m" -> <<"M">> [] c = "n" -> <<"N">> [] c = "o" -> <<"O">>
    [] c = "p" -> <<"P">> [] c = "q" -> <<"Q">> [] c = "r" -> <<"R">>
    [] c = "s" -> <<"S">> [] c = "t" -> <<"T">> [] c = "u" -> <<"U">>
    [] c = "v" -> <<"V">> [] c = "w" -> <<"W">> [] c = "x" -> <<"X">>
    [] c = "y" -> <<"Y">> [] c = "z" -> <<"Z">> [] c = "µ" -> <<"U+039C">>
    [] c = "ß" -> <<"S", "S">> [] c = "à" -> <<"À">> [] c = "á" -> <<"Á">>
    [] c = "â" -> <<"Â">> [] c = "ã" -> <<"Ã">> [] c = "ä" -> <<"Ä">>
    [] c = "å" -> <<"Å">> [] c = "æ" -> <<"Æ">> [] c = "ç" -> <<"Ç">>
    [] c = "è" -> <<"È">> [] c = "é" -> <<"É">> [] c = "ê" -> <<"Ê">>
    [] c = "ë" -> <<"Ë">> [] c = "ì" -> <<"Ì">> [] c = "í" -> <<"Í">>
    [] c = "î" -> <<"Î">> [] c = "ï" -> <<"Ï">> [] c = "ð" -> <<"Ð">>
    [] c = "ñ" -> <<"Ñ">> [] c = "ò" -> <<"Ò">> [] c = "ó" -> <<"Ó">>
    [] c = "ô" -> <<"Ô">> [] c = "õ" -> <<"Õ">> [] c = "ö" -> <<"Ö">>
    [] c = "ø" -> <<"Ø">> [] c = "ù" -> <<"Ù">> [] c = "ú" -> <<"Ú">>
    [] c = "û" -> <<"Û">> [] c = "ü" -> <<"Ü">> [] c = "ý" -> <<"Ý">>
    [] c = "þ" -> <<"Þ">> [] c = "ÿ" -> <<"U+0178">>
    [] c = "U+0101" -> <<"U+0100">> [] c = "U+0103" -> <<"U+0102">>
    [] c = "U+0105" -> <<"U+0104">> [] c = "U+0107" -> <<"U+0106">>
    [] c = "U+0109" -> <<"U+0108">> [] c = "U+010B" -> <<"U+010A">>
    [] c = "U+010D" -> <<"U+010C">> [] c = "U+010F" -> <<"U+010E">>
    [] c = "U+0111" -> <<"U+0110">> [] c = "U+0113" -> <<"U+0112">>
    [] c = "U+0115" -> <<"U+0114">> [] c = "U+0117" -> <<"U+0116">>
    [] c = "U+0119" -> <<"U+0118">> [] c = "U+011B" -> <<"U+011A">>
    [] c = "U+011D" -> <<"U+011C">> [] c = "U+011F" -> <<"U+011E">>
    [] c = "U+0121" -> <<"U+0120">> [] c = "U+0123" -> <<"U+0122">>
    [] c = "U+0125" -> <<"U+0124">> [] c = "U+0127" -> <<"U+0126">>
    [] c = "U+0129" -> <<"U+0128">> [] c = "U+012B" -> <<"U+012A">>
    [] c = "U+012D" -> <<"U+012C">> [] c = "U+012F" -> <<"U+012E">>
    [] c = "U+0131" -> <<"I">> [] c = "U+0133" -> <<"U+0132">>
    [] c = "U+0135" -> <<"U+0134">> [] c = "U+0137" -> <<"U+0136">>
    [] c = "U+013A" -> <<"U+0139">> [] c = "U+013C" -> <<"U+013B">>
    [] c = "U+013E" -> <<"U+013D">> [] c = "U+0140" -> <<"U+013F">>
    [] c = "U+0142" -> <<"U+0141">> [] c = "U+0144" -> <<"U+0143">>
    [] c = "U+0146" -> <<"U+0145">> [] c = "U+0148" -> <<"U+0147">>
    [] c = "U+0149" -> <<"U+02BC", "N">> [] c = "U+014B" -> <<"U+014A">>
    [] c = "U+014D" -> <<"U+014C">> [] c = "U+014F" -> <<"U+014E">>
    [] c = "U+0151" -> <<"U+0150">> [] c = "U+0153" -> <<"U+0152">>
    [] c = "U+0155" -> <<"U+0154">> [] c = "U+0157" -> <<"U+0156">>
    [] c = "U+0159" -> <<"U+0158">> [] c = "U+015B" -> <<"U+015A">>
    [] c = "U+015D" -> <<"U+015C">> [] c = "U+015F" -> <<"U+015E">>
    [] c = "U+0161" -> <<"U+0160">> [] c = "U+0163" -> <<"U+0162">>
    [] c = "U+0165" -> <<"U+0164">> [] c = "U+0167" -> <<"U+0166">>
    [] c = "U+0169" -> <<"U+0168">> [] c = "U+016B" -> <<"U+016A">>
    [] c = "U+016D" -> <<"U+016C">> [] c = "U+016F" -> <<"U+016E">>
    [] c = "U+0171" -> <<"U+0170">> [] c = "U+0173" -> <<"U+0172">>
    [] c = "U+0175" -> <<"U+0174">> [] c = "U+0177" -> <<"U+0176">>
    [] c = "U+017A" -> <<"U+0179">> [] c = "U+017C" -> <<"U+017B">>
    [] c = "U+017E" -> <<"U+017D">> [] c = "U+017F" -> <<"S">>
    [] c = "U+0180" -> <<"U+0243">> [] c = "U+0183" -> <<"U+0182">>
    [] c = "U+0185" -> <<"U+0184">> [] c = "U+0188" -> <<"U+0187">>
    [] c = "U+018C" -> <<"U+018B">> [] c = "U+0192" -> <<"U+0191">>
    [] c = "U+0195" -> <<"U+01F6">> [] c = "U+0199" -> <<"U+0198">>
    [] c = "U+019A" -> <<"U+023D">> [] c = "U+019E" -> <<"U+0220">>
    [] c = "U+01A1" -> <<"U+01A0">> [] c = "U+01A3" -> <<"U+01A2">>
    [] c = "U+01A5" -> <<"U+01A4">> [] c = "U+01A8" -> <<"U+01A7">>
    [] c = "U+01AD" -> <<"U+01AC">> [] c = "U+01B0" -> <<"U+01AF">>
    [] c = "U+01B4" -> <<"U+01B3">> [] c = "U+01B6" -> <<"U+01B5">>
    [] c = "U+01B9" -> <<"U+01B8">> [] c = "U+01BD" -> <<"U+01BC">>
    [] c = "U+01BF" -> <<"U+01F7">> [] c = "U+01C5" -> <<"U+01C4">>
    [] c = "U+01C6" -> <<"U+01C4">> [] c = "U+01C8" -> <<"U+01C7">>
    [] c = "U+01C9" -> <<"U+01C7">> [] c = "U+01CB" -> <<"U+01CA">>
    [] c = "U+01CC" -> <<"U+01CA">> [] c = "U+01CE" -> <<"U+01CD">>
    [] c = "U+01D0" -> <<"U+01CF">> [] c = "U+01D2" -> <<"U+01D1">>
    [] c = "U+01D4" -> <<"U+01D3">> [] c = "U+01D6" -> <<"U+01D5">>
    [] c = "U+01D8" -> <<"U+01D7">> [] c = "U+01DA" -> <<"U+01D9">>
    [] c = "U+01DC" -> <<"U+01DB">> [] c = "U+01DD" -> <<"U+018E">>
    [] c = "U+01DF" -> <<"U+01DE">> [] c = "U+01E1" -> <<"U+01E0">>
    [] c = "U+01E3" -> <<"U+01E2">> [] c = "U+01E5" -> <<"U+01E4">>
    [] c = "U+01E7" -> <<"U+01E6">> [] c = "U+01E9" -> <<"U+01E8">>
    [] c = "U+01EB" -> <<"U+01EA">> [] c = "U+01ED" -> <<"U+01EC">>
    [] c = "U+01EF" -> <<"U+01EE">> [] c = "U+01F0" -> <<"J", "U+030C">>
    [] c = "U+01F2" -> <<"U+01F1">> [] c = "U+01F3" -> <<"U+01F1">>
    [] c = "U+01F5" -> <<"U+01F4">> [] c = "U+01F9" -> <<"U+01F8">>
    [] c = "U+01FB" -> <<"U+01FA">> [] c = "U+01FD" -> <<"U+01FC">>
    [] c = "U+01FF" -> <<"U+01FE">> [] c = "U+0201" -> <<"U+0200">>
    [] c = "U+0203" -> <<"U+0202">> [] c = "U+0205" -> <<"U+0204">>
    [] c = "U+0207" -> <<"U+0206">> [] c = "U+0209" -> <<"U+0208">>
    [] c = "U+020B" -> <<"U+020A">> [] c = "U+020D" -> <<"U+020C">>
    [] c = "U+020F" -> <<"U+020E">> [] c = "U+0211" -> <<"U+0210">>
    [] c = "U+0213" -> <<"U+0212">> [] c = "U+0215" -> <<"U+0214">>
    [] c = "U+0217" -> <<"U+0216">> [] c = "U+0219" -> <<"U+0218">>
    [] c = "U+021B" -> <<"U+021A">> [] c = "U+021D" -> <<"U+021C">>
    [] c = "U+021F" -> <<"U+021E">> [] c = "U+0223" -> <<"U+0222">>
    [] c = "U+0225" -> <<"U+0224">> [] c = "U+0227" -> <<"U+0226">>
    [] c = "U+0229" -> <<"U+0228">> [] c = "U+022B" -> <<"U+022A">>
    [] c = "U+022D" -> <<"U+022C">> [] c = "U+022F" -> <<"U+022E">>
    [] c = "U+0231" -> <<"U+0230">> [] c = "U+0233" -> <<"U+0232">>
    [] c = "U+023C" -> <<"U+023B">> [] c = "U+023F" -> <<"U+2C7E">>
    [] c = "U+0240" -> <<"U+2C7F">> [] c = "U+0242" -> <<"U+0241">>
    [] c = "U+0247" -> <<"U+0246">> [] c = "U+0249" -> <<"U+0248">>
    [] c = "U+024B" -> <<"U+024A">> [] c = "U+024D" -> <<"U+024C">>
    [] c = "U+024F" -> <<"U+024E">> [] c = "U+0250" -> <<"U+2C6F">>
    [] c = "U+0251" -> <<"U+2C6D">> [] c = "U+0252" -> <<"U+2C70">>
    [] c = "U+0253" -> <<"U+0181">> [] c = "U+0254" -> <<"U+0186">>
    [] c = "U+0256" -> <<"U+0189">> [] c = "U+0257" -> <<"U+018A">>
    [] c = "U+0259" -> <<"U+018F">> [] c = "U+025B" -> <<"U+0190">>
    [] c = "U+025C" -> <<"U+A7AB">> [] c = "U+0260" -> <<"U+0193">>
    [] c = "U+0261" -> <<"U+A7AC">> [] c = "U+0263" -> <<"U+0194">>
    [] c = "U+0265" -> <<"U+A78D">> [] c = "U+0266" -> <<"U+A7AA">>
    [] c = "U+0268" -> <<"U+0197">> [] c = "U+0269" -> <<"U+0196">>
    [] c = "U+026A" -> <<"U+A7AE">> [] c = "U+026B" -> <<"U+2C62">>
    [] c = "U+026C" -> <<"U+A7AD">> [] c = "U+026F" -> <<"U+019C">>
    [] c = "U+0271" -> <<"U+2C6E">> [] c = "U+0272" -> <<"U+019D">>
    [] c = "U+0275" -> <<"U+019F">> [] c = "U+027D" -> <<"U+2C64">>
    [] c = "U+0280" -> <<"U+01A6">> [] c = "U+0282" -> <<"U+A7C5">>
    [] c = "U+0283" -> <<"U+01A9">> [] c = "U+0287" -> <<"U+A7B1">>
    [] c = "U+0288" -> <<"U+01AE">> [] c = "U+0289" -> <<"U+0244">>
    [] c = "U+028A" -> <<"U+01B1">> [] c = "U+028B" -> <<"U+01B2">>
    [] c = "U+028C" -> <<"U+0245">> [] c = "U+0292" -> <<"U+01B7">>
    [] c = "U+029D" -> <<"U+A7B2">> [] c = "U+029E" -> <<"U+A7B0">>
    [] c = "U+0345" -> <<"U+0399">> [] c = "U+0371" -> <<"U+0370">>
    [] c = "U+0373" -> <<"U+0372">> [] c = "U+0377" -> <<"U+0376">>
    [] c = "U+037B" -> <<"U+03FD">> [] c = "U+037C" -> <<"U+03FE">>
    [] c = "U+037D" -> <<"U+03FF">>
    [] c = "U+0390" -> <<"U+0399", "U+0308", "U+0301">>
    [] c = "U+03AC" -> <<"U+0386">> [] c = "U+03AD" -> <<"U+0388">>
    [] c = "U+03AE" -> <<"U+0389">> [] c = "U+03AF" -> <<"U+038A">>
    [] c = "U+03B0" -> <<"U+03A5", "U+0308", "U+0301">>
    [] c = "U+03B1" -> <<"U+0391">> [] c = "U+03B2" -> <<"U+0392">>
    [] c = "U+03B3" -> <<"U+0393">> [] c = "U+03B4" -> <<"U+0394">>
    [] c = "U+03B5" -> <<"U+0395">> [] c = "U+03B6" -> <<"U+0396">>
    [] c = "U+03B7" -> <<"U+0397">> [] c = "U+03B8" -> <<"U+0398">>
    [] c = "U+03B9" -> <<"U+0399">> [] c = "U+03BA" -> <<"U+039A">>
    [] c = "U+03BB" -> <<"U+039B">> [] c = "U+03BC" -> <<"U+039C">>
    [] c = "U+03BD" -> <<"U+039D">> [] c = "U+03BE" -> <<"U+039E">>
    [] c = "U+03BF" -> <<"U+039F">> [] c = "U+03C0" -> <<"U+03A0">>
    [] c = "U+03C1" -> <<"U+03A1">> [] c = "U+03C2" -> <<"U+03A3">>
    [] c = "U+03C3" -> <<"U+03A3">> [] c = "U+03C4" -> <<"U+03A4">>
    [] c = "U+03C5" -> <<"U+03A5">> [] c = "U+03C6" -> <<"U+03A6">>
    [] c = "U+03C7" -> <<"U+03A7">> [] c = "U+03C8" -> <<"U+03A8">>
    [] c = "U+03C9" -> <<"U+03A9">> [] c = "U+03CA" -> <<"U+03AA">>
    [] c = "U+03CB" -> <<"U+03AB">> [] c = "U+03CC" -> <<"U+038C">>
    [] c = "U+03CD" -> <<"U+038E">> [] c = "U+03CE" -> <<"U+038F">>
    [] c = "U+03D0" -> <<"U+0392">> [] c = "U+03D1" -> <<"U+0398">>
    [] c = "U+03D5" -> <<"U+03A6">> [] c = "U+03D6" -> <<"U+03A0">>
    [] c = "U+03D7" -> <<"U+03CF">> [] c = "U+03D9" -> <<"U+03D8">>
    [] c = "U+03DB" -> <<"U+03DA">> [] c = "U+03DD" -> <<"U+03DC">>
    [] c = "U+03DF" -> <<"U+03DE">> [] c = "U+03E1" -> <<"U+03E0">>
    [] c = "U+03E3" -> <<"U+03E2">> [] c = "U+03E5" -> <<"U+03E4">>
    [] c = "U+03E7" -> <<"U+03E6">> [] c = "U+03E9" -> <<"U+03E8">>
    [] c = "U+03EB" -> <<"U+03EA">> [] c = "U+03ED" -> <<"U+03EC">>
    [] c = "U+03EF" -> <<"U+03EE">> [] c = "U+03F0" -> <<"U+039A">>
    [] c = "U+03F1" -> <<"U+03A1">> [] c = "U+03F2" -> <<"U+03F9">>
    [] c = "U+03F3" -> <<"U+037F">> [] c = "U+03F5" -> <<"U+0395">>
    [] c = "U+03F8" -> <<"U+03F7">> [] c = "U+03FB" -> <<"U+03FA">>
    [] c = "U+0430" -> <<"U+0410">> [] c = "U+0431" -> <<"U+0411">>
    [] c = "U+0432" -> <<"U+0412">> [] c = "U+0433" -> <<"U+0413">>
    [] c = "U+0434" -> <<"U+0414">> [] c = "U+0435" -> <<"U+0415">>
    [] c = "U+0436" -> <<"U+0416">> [] c = "U+0437" -> <<"U+0417">>
    [] c = "U+0438" -> <<"U+0418">> [] c = "U+0439" -> <<"U+0419">>
    [] c = "U+043A" -> <<"U+041A">> [] c = "U+043B" -> <<"U+041B">>
    [] c = "U+043C" -> <<"U+041C">> [] c = "U+043D" -> <<"U+041D">>
    [] c = "U+043E" -> <<"U+041E">> [] c = "U+043F" -> <<"U+041F">>
    [] c = "U+0440" -> <<"U+0420">> [] c = "U+0441" -> <<"U+0421">>
    [] c = "U+0442" -> <<"U+0422">> [] c = "U+0443" -> <<"U+0423">>
    [] c = "U+0444" -> <<"U+0424">> [] c = "U+0445" -> <<"U+0425">>
    [] c = "U+0446" -> <<"U+0426">> [] c = "U+0447" -> <<"U+0427">>
    [] c = "U+0448" -> <<"U+0428">> [] c = "U+0449" -> <<"U+0429">>
    [] c = "U+044A" -> <<"U+042A">> [] c = "U+044B" -> <<"U+042B">>
    [] c = "U+044C" -> <<"U+042C">> [] c = "U+044D" -> <<"U+042D">>
    [] c = "U+044E" -> <<"U+042E">> [] c = "U+044F" -> <<"U+042F">>
    [] c = "U+0450" -> <<"U+0400">> [] c = "U+0451" -> <<"U+0401">>
    [] c = "U+0452" -> <<"U+0402">> [] c = "U+0453" -> <<"U+0403">>
    [] c = "U+0454" -> <<"U+0404">> [] c = "U+0455" -> <<"U+0405">>
    [] c = "U+0456" -> <<"U+0406">> [] c = "U+0457" -> <<"U+0407">>
    [] c = "U+0458" -> <<"U+0408">> [] c = "U+0459" -> <<"U+0409">>
    [] c = "U+045A" -> <<"U+040A">> [] c = "U+045B" -> <<"U+040B">>
    [] c = "U+045C" -> <<"U+040C">> [] c = "U+045D" -> <<"U+040D">>
    [] c = "U+045E" -> <<"U+040E">> [] c = "U+045F" -> <<"U+040F">>
    [] c = "U+0461" -> <<"U+0460">> [] c = "U+0463" -> <<"U+0462">>
    [] c = "U+0465" -> <<"U+0464">> [] c = "U+0467" -> <<"U+0466">>
    [] c = "U+0469" -> <<"U+0468">> [] c = "U+046B" -> <<"U+046A">>
    [] c = "U+046D" -> <<"U+046C">> [] c = "U+046F" -> <<"U+046E">>
    [] c = "U+0471" -> <<"U+0470">> [] c = "U+0473" -> <<"U+0472">>
    [] c = "U+0475" -> <<"U+0474">> [] c = "U+0477" -> <<"U+0476">>
    [] c = "U+0479" -> <<"U+0478">> [] c = "U+047B" -> <<"U+047A">>
    [] c = "U+047D" -> <<"U+047C">> [] c = "U+047F" -> <<"U+047E">>
    [] c = "U+0481" -> <<"U+0480">> [] c = "U+048B" -> <<"U+048A">>
    [] c = "U+048D" -> <<"U+048C">> [] c = "U+048F" -> <<"U+048E">>
    [] c = "U+0491" -> <<"U+0490">> [] c = "U+0493" -> <<"U+0492">>
    [] c = "U+0495" -> <<"U+0494">> [] c = "U+0497" -> <<"U+0496">>
    [] c = "U+0499" -> <<"U+0498">> [] c = "U+049B" -> <<"U+049A">>
    [] c = "U+049D" -> <<"U+049C">> [] c = "U+049F" -> <<"U+049E">>
    [] c = "U+04A1" -> <<"U+04A0">> [] c = "U+04A3" -> <<"U+04A2">>
    [] c = "U+04A5" -> <<"U+04A4">> [] c = "U+04A7" -> <<"U+04A6">>
    [] c = "U+04A9" -> <<"U+04A8">> [] c = "U+04AB" -> <<"U+04AA">>
    [] c = "U+04AD" -> <<"U+04AC">> [] c = "U+04AF" -> <<"U+04AE">>
    [] c = "U+04B1" -> <<"U+04B0">> [] c = "U+04B3" -> <<"U+04B2">>
    [] c = "U+04B5" -> <<"U+04B4">> [] c = "U+04B7" -> <<"U+04B6">>
    [] c = "U+04B9" -> <<"U+04B8">> [] c = "U+04BB" -> <<"U+04BA">>
    [] c = "U+04BD" -> <<"U+04BC">> [] c = "U+04BF" -> <<"U+04BE">>
    [] c = "U+04C2" -> <<"U+04C1">> [] c = "U+04C4" -> <<"U+04C3">>
    [] c = "U+04C6" -> <<"U+04C5">> [] c = "U+04C8" -> <<"U+04C7">>
    [] c = "U+04CA" -> <<"U+04C9">> [] c = "U+04CC" -> <<"U+04CB">>
    [] c = "U+04CE" -> <<"U+04CD">> [] c = "U+04CF" -> <<"U+04C0">>
    [] c = "U+04D1" -> <<"U+04D0">> [] c = "U+04D3" -> <<"U+04D2">>
    [] c = "U+04D5" -> <<"U+04D4">> [] c = "U+04D7" -> <<"U+04D6">>
    [] c = "U+04D9" -> <<"U+04D8">> [] c = "U+04DB" -> <<"U+04DA">>
    [] c = "U+04DD" -> <<"U+04DC">> [] c = "U+04DF" -> <<"U+04DE">>
    [] c = "U+04E1" -> <<"U+04E0">> [] c = "U+04E3" -> <<"U+04E2">>
    [] c = "U+04E5" -> <<"U+04E4">> [] c = "U+04E7" -> <<"U+04E6">>
    [] c = "U+04E9" -> <<"U+04E8">> [] c = "U+04EB" -> <<"U+04EA">>
    [] c = "U+04ED" -> <<"U+04EC">> [] c = "U+04EF" -> <<"U+04EE">>
    [] c = "U+04F1" -> <<"U+04F0">> [] c = "U+04F3" -> <<"U+04F2">>
    [] c = "U+04F5" -> <<"U+04F4">> [] c = "U+04F7" -> <<"U+04F6">>
    [] c = "U+04F9" -> <<"U+04F8">> [] c = "U+04FB" -> <<"U+04FA">>
    [] c = "U+04FD" -> <<"U+04FC">> [] c = "U+04FF" -> <<"U+04FE">>
    [] c = "U+0501" -> <<"U+0500">> [] c = "U+0503" -> <<"U+0502">>
    [] c = "U+0505" -> <<"U+0504">> [] c = "U+0507" -> <<"U+0506">>
    [] c = "U+0509" -> <<"U+0508">> [] c = "U+050B" -> <<"U+050A">>
    [] c = "U+050D" -> <<"U+050C">> [] c = "U+050F" -> <<"U+050E">>
    [] c = "U+0511" -> <<"U+0510">> [] c = "U+0513" -> <<"U+0512">>
    [] c = "U+0515" -> <<"U+0514">> [] c = "U+0517" -> <<"U+0516">>
    [] c = "U+0519" -> <<"U+0518">> [] c = "U+051B" -> <<"U+051A">>
    [] c = "U+051D" -> <<"U+051C">> [] c = "U+051F" -> <<"U+051E">>
    [] c = "U+0521" -> <<"U+0520">> [] c = "U+0523" -> <<"U+0522">>
    [] c = "U+0525" -> <<"U+0524">> [] c = "U+0527" -> <<"U+0526">>
    [] c = "U+0529" -> <<"U+0528">> [] c = "U+052B" -> <<"U+052A">>
    [] c = "U+052D" -> <<"U+052C">> [] c = "U+052F" -> <<"U+052E">>
    [] c = "U+0561" -> <<"U+0531">> [] c = "U+0562" -> <<"U+0532">>
    [] c = "U+0563" -> <<"U+0533">> [] c = "U+0564" -> <<"U+0534">>
    [] c = "U+0565" -> <<"U+0535">> [] c = "U+0566" -> <<"U+0536">>
    [] c = "U+0567" -> <<"U+0537">> [] c = "U+0568" -> <<"U+0538">>
    [] c = "U+0569" -> <<"U+0539">> [] c = "U+056A" -> <<"U+053A">>
    [] c = "U+056B" -> <<"U+053B">> [] c = "U+056C" -> <<"U+053C">>
    [] c = "U+056D" -> <<"U+053D">> [] c = "U+056E" -> <<"U+053E">>
    [] c = "U+056F" -> <<"U+053F">> [] c = "U+0570" -> <<"U+0540">>
    [] c = "U+0571" -> <<"U+0541">> [] c = "U+0572" -> <<"U+0542">>
    [] c = "U+0573" -> <<"U+0543">> [] c = "U+0574" -> <<"U+0544">>
    [] c = "U+0575" -> <<"U+0545">> [] c = "U+0576" -> <<"U+0546">>
    [] c = "U+0577" -> <<"U+0547">> [] c = "U+0578" -> <<"U+0548">>
    [] c = "U+0579" -> <<"U+0549">> [] c = "U+057A" -> <<"U+054A">>
    [] c = "U+057B" -> <<"U+054B">> [] c = "U+057C" -> <<"U+054C">>
    [] c = "U+057D" -> <<"U+054D">> [] c = "U+057E" -> <<"U+054E">>
    [] c = "U+057F" -> <<"U+054F">> [] c = "U+0580" -> <<"U+0550">>
    [] c = "U+0581" -> <<"U+0551">> [] c = "U+0582" -> <<"U+0552">>
    [] c = "U+0583" -> <<"U+0553">> [] c = "U+0584" -> <<"U+0554">>
    [] c = "U+0585" -> <<"U+0555">> [] c = "U+0586" -> <<"U+0556">>
    [] c = "U+0587" -> <<"U+0535", "U+0552">> [] c = "U+10D0" -> <<"U+1C90">>
    [] c = "U+10D1" -> <<"U+1C91">> [] c = "U+10D2" -> <<"U+1C92">>
    [] c = "U+10D3" -> <<"U+1C93">> [] c = "U+10D4" -> <<"U+1C94">>
    [] c = "U+10D5" -> <<"U+1C95">> [] c = "U+10D6" -> <<"U+1C96">>
    [] c = "U+10D7" -> <<"U+1C97">> [] c = "U+10D8" -> <<"U+1C98">>
    [] c = "U+10D9" -> <<"U+1C99">> [] c = "U+10DA" -> <<"U+1C9A">>
    [] c = "U+10DB" -> <<"U+1C9B">> [] c = "U+10DC" -> <<"U+1C9C">>
    [] c = "U+10DD" -> <<"U+1C9D">> [] c = "U+10DE" -> <<"U+1C9E">>
    [] c = "U+10DF" -> <<"U+1C9F">> [] c = "U+10E0" -> <<"U+1CA0">>
    [] c = "U+10E1" -> <<"U+1CA1">> [] c = "U+10E2" -> <<"U+1CA2">>
    [] c = "U+10E3" -> <<"U+1CA3">> [] c = "U+10E4" -> <<"U+1CA4">>
    [] c = "U+10E5" -> <<"U+1CA5">> [] c = "U+10E6" -> <<"U+1CA6">>
    [] c = "U+10E7" -> <<"U+1CA7">> [] c = "U+10E8" -> <<"U+1CA8">>
    [] c = "U+10E9" -> <<"U+1CA9">> [] c = "U+10EA" -> <<"U+1CAA">>
    [] c = "U+10EB" -> <<"U+1CAB">> [] c = "U+10EC" -> <<"U+1CAC">>
    [] c = "U+10ED" -> <<"U+1CAD">> [] c = "U+10EE" -> <<"U+1CAE">>
    [] c = "U+10EF" -> <<"U+1CAF">> [] c = "U+10F0" -> <<"U+1CB0">>
    [] c = "U+10F1" -> <<"U+1CB1">> [] c = "U+10F2" -> <<"U+1CB2">>
    [] c = "U+10F3" -> <<"U+1CB3">> [] c = "U+10F4" -> <<"U+1CB4">>
    [] c = "U+10F5" -> <<"U+1CB5">> [] c = "U+10F6" -> <<"U+1CB6">>
    [] c = "U+10F7" -> <<"U+1CB7">> [] c = "U+10F8" -> <<"U+1CB8">>
    [] c = "U+10F9" -> <<"U+1CB9">> [] c = "U+10FA" -> <<"U+1CBA">>
    [] c = "U+10FD" -> <<"U+1CBD">> [] c = "U+10FE" -> <<"U+1CBE">>
    [] c = "U+10FF" -> <<"U+1CBF">> [] c = "U+13F8" -> <<"U+13F0">>
    [] c = "U+13F9" -> <<"U+13F1">> [] c = "U+13FA" -> <<"U+13F2">>
    [] c = "U+13FB" -> <<"U+13F3">> [] c = "U+13FC" -> <<"U+13F4">>
    [] c = "U+13FD" -> <<"U+13F5">> [] c = "U+1C80" -> <<"U+0412">>
    [] c = "U+1C81" -> <<"U+0414">> [] c = "U+1C82" -> <<"U+041E">>
    [] c = "U+1C83" -> <<"U+0421">> [] c = "U+1C84" -> <<"U+0422">>
    [] c = "U+1C85" -> <<"U+0422">> [] c = "U+1C86" -> <<"U+042A">>
    [] c = "U+1C87" -> <<"U+0462">> [] c = "U+1C88" -> <<"U+A64A">>
    [] c = "U+1D79" -> <<"U+A77D">> [] c = "U+1D7D" -> <<"U+2C63">>
    [] c = "U+1D8E" -> <<"U+A7C6">> [] c = "U+1E01" -> <<"U+1E00">>
    [] c = "U+1E03" -> <<"U+1E02">> [] c = "U+1E05" -> <<"U+1E04">>
    [] c = "U+1E07" -> <<"U+1E06">> [] c = "U+1E09" -> <<"U+1E08">>
    [] c = "U+1E0B" -> <<"U+1E0A">> [] c = "U+1E0D" -> <<"U+1E0C">>
    [] c = "U+1E0F" -> <<"U+1E0E">> [] c = "U+1E11" -> <<"U+1E10">>
    [] c = "U+1E13" -> <<"U+1E12">> [] c = "U+1E15" -> <<"U+1E14">>
    [] c = "U+1E17" -> <<"U+1E16">> [] c = "U+1E19" -> <<"U+1E18">>
    [] c = "U+1E1B" -> <<"U+1E1A">> [] c = "U+1E1D" -> <<"U+1E1C">>
    [] c = "U+1E1F" -> <<"U+1E1E">> [] c = "U+1E21" -> <<"U+1E20">>
    [] c = "U+1E23" -> <<"U+1E22">> [] c = "U+1E25" -> <<"U+1E24">>
    [] c = "U+1E27" -> <<"U+1E26">> [] c = "U+1E29" -> <<"U+1E28">>
    [] c = "U+1E2B" -> <<"U+1E2A">> [] c = "U+1E2D" -> <<"U+1E2C">>
    [] c = "U+1E2F" -> <<"U+1E2E">> [] c = "U+1E31" -> <<"U+1E30">>
    [] c = "U+1E33" -> <<"U+1E32">> [] c = "U+1E35" -> <<"U+1E34">>
    [] c = "U+1E37" -> <<"U+1E36">> [] c = "U+1E39" -> <<"U+1E38">>
    [] c = "U+1E3B" -> <<"U+1E3A">> [] c = "U+1E3D" -> <<"U+1E3C">>
    [] c = "U+1E3F" -> <<"U+1E3E">> [] c = "U+1E41" -> <<"U+1E40">>
    [] c = "U+1E43" -> <<"U+1E42">> [] c = "U+1E45" -> <<"U+1E44">>
    [] c = "U+1E47" -> <<"U+1E46">> [] c = "U+1E49" -> <<"U+1E48">>
    [] c = "U+1E4B" -> <<"U+1E4A">> [] c = "U+1E4D" -> <<"U+1E4C">>
    [] c = "U+1E4F" -> <<"U+1E4E">> [] c = "U+1E51" -> <<"U+1E50">>
    [] c = "U+1E53" -> <<"U+1E52">> [] c = "U+1E55" -> <<"U+1E54">>
    [] c = "U+1E57" -> <<"U+1E56">> [] c = "U+1E59" -> <<"U+1E58">>
    [] c = "U+1E5B" -> <<"U+1E5A">> [] c = "U+1E5D" -> <<"U+1E5C">>
    [] c = "U+1E5F" -> <<"U+1E5E">> [] c = "U+1E61" -> <<"U+1E60">>
    [] c = "U+1E63" -> <<"U+1E62">> [] c = "U+1E65" -> <<"U+1E64">>
    [] c = "U+1E67" -> <<"U+1E66">> [] c = "U+1E69" -> <<"U+1E68">>
    [] c = "U+1E6B" -> <<"U+1E6A">> [] c = "U+1E6D" -> <<"U+1E6C">>
    [] c = "U+1E6F" -> <<"U+1E6E">> [] c = "U+1E71" -> <<"U+1E70">>
    [] c = "U+1E73" -> <<"U+1E72">> [] c = "U+1E75" -> <<"U+1E74">>
    [] c = "U+1E77" -> <<"U+1E76">> [] c = "U+1E79" -> <<"U+1E78">>
    [] c = "U+1E7B" -> <<"U+1E7A">> [] c = "U+1E7D" -> <<"U+1E7C">>
    [] c = "U+1E7F" -> <<"U+1E7E">> [] c = "U+1E81" -> <<"U+1E80">>
    [] c = "U+1E83" -> <<"U+1E82">> [] c = "U+1E85" -> <<"U+1E84">>
    [] c = "U+1E87" -> <<"U+1E86">> [] c = "U+1E89" -> <<"U+1E88">>
    [] c = "U+1E8B" -> <<"U+1E8A">> [] c = "U+1E8D" -> <<"U+1E8C">>
    [] c = "U+1E8F" -> <<"U+1E8E">> [] c = "U+1E91" -> <<"U+1E90">>
    [] c = "U+1E93" -> <<"U+1E92">> [] c = "U+1E95" -> <<"U+1E94">>
    [] c = "U+1E96" -> <<"H", "U+0331">> [] c = "U+1E97" -> <<"T", "U+0308">>
    [] c = "U+1E98" -> <<"W", "U+030A">> [] c = "U+1E99" -> <<"Y", "U+030A">>
    [] c = "U+1E9A" -> <<"A", "U+02BE">> [] c = "U+1E9B" -> <<"U+1E60">>
    [] c = "U+1EA1" -> <<"U+1EA0">> [] c = "U+1EA3" -> <<"U+1EA2">>
    [] c = "U+1EA5" -> <<"U+1EA4">> [] c = "U+1EA7" -> <<"U+1EA6">>
    [] c = "U+1EA9" -> <<"U+1EA8">> [] c = "U+1EAB" -> <<"U+1EAA">>
    [] c = "U+1EAD" -> <<"U+1EAC">> [] c = "U+1EAF" -> <<"U+1EAE">>
    [] c = "U+1EB1" -> <<"U+1EB0">> [] c = "U+1EB3" -> <<"U+1EB2">>
    [] c = "U+1EB5" -> <<"U+1EB4">> [] c = "U+1EB7" -> <<"U+1EB6">>
    [] c = "U+1EB9" -> <<"U+1EB8">> [] c = "U+1EBB" -> <<"U+1EBA">>
    [] c = "U+1EBD" -> <<"U+1EBC">> [] c = "U+1EBF" -> <<"U+1EBE">>
    [] c = "U+1EC1" -> <<"U+1EC0">> [] c = "U+1EC3" -> <<"U+1EC2">>
    [] c = "U+1EC5" -> <<"U+1EC4">> [] c = "U+1EC7" -> <<"U+1EC6">>
    [] c = "U+1EC9" -> <<"U+1EC8">> [] c = "U+1ECB" -> <<"U+1ECA">>
    [] c = "U+1ECD" -> <<"U+1ECC">> [] c = "U+1ECF" -> <<"U+1ECE">>
    [] c = "U+1ED1" -> <<"U+1ED0">> [] c = "U+1ED3" -> <<"U+1ED2">>
    [] c = "U+1ED5" -> <<"U+1ED4">> [] c = "U+1ED7" -> <<"U+1ED6">>
    [] c = "U+1ED9" -> <<"U+1ED8">> [] c = "U+1EDB" -> <<"U+1EDA">>
    [] c = "U+1EDD" -> <<"U+1EDC">> [] c = "U+1EDF" -> <<"U+1EDE">>
    [] c = "U+1EE1" -> <<"U+1EE0">> [] c = "U+1EE3" -> <<"U+1EE2">>
    [] c = "U+1EE5" -> <<"U+1EE4">> [] c = "U+1EE7" -> <<"U+1EE6">>
    [] c = "U+1EE9" -> <<"U+1EE8">> [] c = "U+1EEB" -> <<"U+1EEA">>
    [] c = "U+1EED" -> <<"U+1EEC">> [] c = "U+1EEF" -> <<"U+1EEE">>
    [] c = "U+1EF1" -> <<"U+1EF0">> [] c = "U+1EF3" -> <<"U+1EF2">>
    [] c = "U+1EF5" -> <<"U+1EF4">> [] c = "U+1EF7" -> <<"U+1EF6">>
    [] c = "U+1EF9" -> <<"U+1EF8">> [] c = "U+1EFB" -> <<"U+1EFA">>
    [] c = "U+1EFD" -> <<"U+1EFC">> [] c = "U+1EFF" -> <<"U+1EFE">>
    [] c = "U+1F00" -> <<"U+1F08">> [] c = "U+1F01" -> <<"U+1F09">>
    [] c = "U+1F02" -> <<"U+1F0A">> [] c = "U+1F03" -> <<"U+1F0B">>
    [] c = "U+1F04" -> <<"U+1F0C">> [] c = "U+1F05" -> <<"U+1F0D">>
    [] c = "U+1F06" -> <<"U+1F0E">> [] c = "U+1F07" -> <<"U+1F0F">>
    [] c = "U+1F10" -> <<"U+1F18">> [] c = "U+1F11" -> <<"U+1F19">>
    [] c = "U+1F12" -> <<"U+1F1A">> [] c = "U+1F13" -> <<"U+1F1B">>
    [] c = "U+1F14" -> <<"U+1F1C">> [] c = "U+1F15" -> <<"U+1F1D">>
    [] c = "U+1F20" -> <<"U+1F28">> [] c = "U+1F21" -> <<"U+1F29">>
    [] c = "U+1F22" -> <<"U+1F2A">> [] c = "U+1F23" -> <<"U+1F2B">>
    [] c = "U+1F24" -> <<"U+1F2C">> [] c = "U+1F25" -> <<"U+1F2D">>
    [] c = "U+1F26" -> <<"U+1F2E">> [] c = "U+1F27" -> <<"U+1F2F">>
    [] c = "U+1F30" -> <<"U+1F38">> [] c = "U+1F31" -> <<"U+1F39">>
    [] c = "U+1F32" -> <<"U+1F3A">> [] c = "U+1F33" -> <<"U+1F3B">>
    [] c = "U+1F34" -> <<"U+1F3C">> [] c = "U+1F35" -> <<"U+1F3D">>
    [] c = "U+1F36" -> <<"U+1F3E">> [] c = "U+1F37" -> <<"U+1F3F">>
    [] c = "U+1F40" -> <<"U+1F48">> [] c = "U+1F41" -> <<"U+1F49">>
    [] c = "U+1F42" -> <<"U+1F4A">> [] c = "U+1F43" -> <<"U+1F4B">>
    [] c = "U+1F44" -> <<"U+1F4C">> [] c = "U+1F45" -> <<"U+1F4D">>
    [] c = "U+1F50" -> <<"U+03A5", "U+0313">> [] c = "U+1F51" -> <<"U+1F59">>
    [] c = "U+1F52" -> <<"U+03A5", "U+0313", "U+0300">>
    [] c = "U+1F53" -> <<"U+1F5B">>
    [] c = "U+1F54" -> <<"U+03A5", "U+0313", "U+0301">>
    [] c = "U+1F55" -> <<"U+1F5D">>
    [] c = "U+1F56" -> <<"U+03A5", "U+0313", "U+0342">>
    [] c = "U+1F57" -> <<"U+1F5F">> [] c = "U+1F60" -> <<"U+1F68">>
    [] c = "U+1F61" -> <<"U+1F69">> [] c = "U+1F62" -> <<"U+1F6A">>
    [] c = "U+1F63" -> <<"U+1F6B">> [] c = "U+1F64" -> <<"U+1F6C">>
    [] c = "U+1F65" -> <<"U+1F6D">> [] c = "U+1F66" -> <<"U+1F6E">>
    [] c = "U+1F67" -> <<"U+1F6F">> [] c = "U+1F70" -> <<"U+1FBA">>
    [] c = "U+1F71" -> <<"U+1FBB">> [] c = "U+1F72" -> <<"U+1FC8">>
    [] c = "U+1F73" -> <<"U+1FC9">> [] c = "U+1F74" -> <<"U+1FCA">>
    [] c = "U+1F75" -> <<"U+1FCB">> [] c = "U+1F76" -> <<"U+1FDA">>
    [] c = "U+1F77" -> <<"U+1FDB">> [] c = "U+1F78" -> <<"U+1FF8">>
    [] c = "U+1F79" -> <<"U+1FF9">> [] c = "U+1F7A" -> <<"U+1FEA">>
    [] c = "U+1F7B" -> <<"U+1FEB">> [] c = "U+1F7C" -> <<"U+1FFA">>
    [] c = "U+1F7D" -> <<"U+1FFB">> [] c = "U+1F80" -> <<"U+1F08", "U+0399">>
    [] c = "U+1F81" -> <<"U+1F09", "U+0399">>
    [] c = "U+1F82" -> <<"U+1F0A", "U+0399">>
    [] c = "U+1F83" -> <<"U+1F0B", "U+0399">>
    [] c = "U+1F84" -> <<"U+1F0C", "U+0399">>
    [] c = "U+1F85" -> <<"U+1F0D", "U+0399">>
    [] c = "U+1F86" -> <<"U+1F0E", "U+0399">>
    [] c = "U+1F87" -> <<"U+1F0F", "U+0399">>
    [] c = "U+1F88" -> <<"U+1F08", "U+0399">>
    [] c = "U+1F89" -> <<"U+1F09", "U+0399">>
    [] c = "U+1F8A" -> <<"U+1F0A", "U+0399">>
    [] c = "U+1F8B" -> <<"U+1F0B", "U+0399">>
    [] c = "U+1F8C" -> <<"U+1F0C", "U+0399">>
    [] c = "U+1F8D" -> <<"U+1F0D", "U+0399">>
    [] c = "U+1F8E" -> <<"U+1F0E", "U+0399">>
    [] c = "U+1F8F" -> <<"U+1F0F", "U+0399">>
    [] c = "U+1F90" -> <<"U+1F28", "U+0399">>
    [] c = "U+1F91" -> <<"U+1F29", "U+0399">>
    [] c = "U+1F92" -> <<"U+1F2A", "U+0399">>
    [] c = "U+1F93" -> <<"U+1F2B", "U+0399">>
    [] c = "U+1F94" -> <<"U+1F2C", "U+0399">>
    [] c = "U+1F95" -> <<"U+1F2D", "U+0399">>
    [] c = "U+1F96" -> <<"U+1F2E", "U+0399">>
    [] c = "U+1F97" -> <<"U+1F2F", "U+0399">>
    [] c = "U+1F98" -> <<"U+1F28", "U+0399">>
    [] c = "U+1F99" -> <<"U+1F29", "U+0399">>
    [] c = "U+1F9A" -> <<"U+1F2A", "U+0399">>
    [] c = "U+1F9B" -> <<"U+1F2B", "U+0399">>
    [] c = "U+1F9C" -> <<"U+1F2C", "U+0399">>
    [] c = "U+1F9D" -> <<"U+1F2D", "U+0399">>
    [] c = "U+1F9E" -> <<"U+1F2E", "U+0399">>
    [] c = "U+1F9F" -> <<"U+1F2F", "U+0399">>
    [] c = "U+1FA0" -> <<"U+1F68", "U+0399">>
    [] c = "U+1FA1" -> <<"U+1F69", "U+0399">>
    [] c = "U+1FA2" -> <<"U+1F6A", "U+0399">>
    [] c = "U+1FA3" -> <<"U+1F6B", "U+0399">>
    [] c = "U+1FA4" -> <<"U+1F6C", "U+0399">>
    [] c = "U+1FA5" -> <<"U+1F6D", "U+0399">>
    [] c = "U+1FA6" -> <<"U+1F6E", "U+0399">>
    [] c = "U+1FA7" -> <<"U+1F6F", "U+0399">>
    [] c = "U+1FA8" -> <<"U+1F68", "U+0399">>
    [] c = "U+1FA9" -> <<"U+1F69", "U+0399">>
    [] c = "U+1FAA" -> <<"U+1F6A", "U+0399">>
    [] c = "U+1FAB" -> <<"U+1F6B", "U+0399">>
    [] c = "U+1FAC" -> <<"U+1F6C", "U+0399">>
    [] c = "U+1FAD" -> <<"U+1F6D", "U+0399">>
    [] c = "U+1FAE" -> <<"U+1F6E", "U+0399">>
    [] c = "U+1FAF" -> <<"U+1F6F", "U+0399">> [] c = "U+1FB0" -> <<"U+1FB8">>
    [] c = "U+1FB1" -> <<"U+1FB9">> [] c = "U+1FB2" -> <<"U+1FBA", "U+0399">>
    [] c = "U+1FB3" -> <<"U+0391", "U+0399">>
    [] c = "U+1FB4" -> <<"U+0386", "U+0399">>
    [] c = "U+1FB6" -> <<"U+0391", "U+0342">>
    [] c = "U+1FB7" -> <<"U+0391", "U+0342", "U+0399">>
    [] c = "U+1FBC" -> <<"U+0391", "U+0399">> [] c = "U+1FBE" -> <<"U+0399">>
    [] c = "U+1FC2" -> <<"U+1FCA", "U+0399">>
    [] c = "U+1FC3" -> <<"U+0397", "U+0399">>
    [] c = "U+1FC4" -> <<"U+0389", "U+0399">>
    [] c = "U+1FC6" -> <<"U+0397", "U+0342">>
    [] c = "U+1FC7" -> <<"U+0397", "U+0342", "U+0399">>
    [] c = "U+1FCC" -> <<"U+0397", "U+0399">> [] c = "U+1FD0" -> <<"U+1FD8">>
    [] c = "U+1FD1" -> <<"U+1FD9">>
    [] c = "U+1FD2" -> <<"U+0399", "U+0308", "U+0300">>
    [] c = "U+1FD3" -> <<"U+0399", "U+0308", "U+0301">>
    [] c = "U+1FD6" -> <<"U+0399", "U+0342">>
    [] c = "U+1FD7" -> <<"U+0399", "U+0308", "U+0342">>
    [] c = "U+1FE0" -> <<"U+1FE8">> [] c = "U+1FE1" -> <<"U+1FE9">>
    [] c = "U+1FE2" -> <<"U+03A5", "U+0308", "U+0300">>
    [] c = "U+1FE3" -> <<"U+03A5", "U+0308", "U+0301">>
    [] c = "U+1FE4" -> <<"U+03A1", "U+0313">> [] c = "U+1FE5" -> <<"U+1FEC">>
    [] c = "U+1FE6" -> <<"U+03A5", "U+0342">>
    [] c = "U+1FE7" -> <<"U+03A5", "U+0308", "U+0342">>
    [] c = "U+1FF2" -> <<"U+1FFA", "U+0399">>
    [] c = "U+1FF3" -> <<"U+03A9", "U+0399">>
    [] c = "U+1FF4" -> <<"U+038F", "U+0399">>
    [] c = "U+1FF6" -> <<"U+03A9", "U+0342">>
    [] c = "U+1FF7" -> <<"U+03A9", "U+0342", "U+0399">>
    [] c = "U+1FFC" -> <<"U+03A9", "U+0399">> [] c = "U+214E" -> <<"U+2132">>
    [] c = "U+2170" -> <<"U+2160">> [] c = "U+2171" -> <<"U+2161">>
    [] c = "U+2172" -> <<"U+2162">> [] c = "U+2173" -> <<"U+2163">>
    [] c = "U+2174" -> <<"U+2164">> [] c = "U+2175" -> <<"U+2165">>
    [] c = "U+2176" -> <<"U+2166">> [] c = "U+2177" -> <<"U+2167">>
    [] c = "U+2178" -> <<"U+2168">> [] c = "U+2179" -> <<"U+2169">>
    [] c = "U+217A" -> <<"U+216A">> [] c = "U+217B" -> <<"U+216B">>
    [] c = "U+217C" -> <<"U+216C">> [] c = "U+217D" -> <<"U+216D">>
    [] c = "U+217E" -> <<"U+216E">> [] c = "U+217F" -> <<"U+216F">>
    [] c = "U+2184" -> <<"U+2183">> [] c = "U+24D0" -> <<"U+24B6">>
    [] c = "U+24D1" -> <<"U+24B7">> [] c = "U+24D2" -> <<"U+24B8">>
    [] c = "U+24D3" -> <<"U+24B9">> [] c = "U+24D4" -> <<"U+24BA">>
    [] c = "U+24D5" -> <<"U+24BB">> [] c = "U+24D6" -> <<"U+24BC">>
    [] c = "U+24D7" -> <<"U+24BD">> [] c = "U+24D8" -> <<"U+24BE">>
    [] c = "U+24D9" -> <<"U+24BF">> [] c = "U+24DA" -> <<"U+24C0">>
    [] c = "U+24DB" -> <<"U+24C1">> [] c = "U+24DC" -> <<"U+24C2">>
    [] c = "U+24DD" -> <<"U+24C3">> [] c = "U+24DE" -> <<"U+24C4">>
    [] c = "U+24DF" -> <<"U+24C5">> [] c = "U+24E0" -> <<"U+24C6">>
    [] c = "U+24E1" -> <<"U+24C7">> [] c = "U+24E2" -> <<"U+24C8">>
    [] c = "U+24E3" -> <<"U+24C9">> [] c = "U+24E4" -> <<"U+24CA">>
    [] c = "U+24E5" -> <<"U+24CB">> [] c = "U+24E6" -> <<"U+24CC">>
    [] c = "U+24E7" -> <<"U+24CD">> [] c = "U+24E8" -> <<"U+24CE">>
    [] c = "U+24E9" -> <<"U+24CF">> [] c = "U+2C30" -> <<"U+2C00">>
    [] c = "U+2C31" -> <<"U+2C01">> [] c = "U+2C32" -> <<"U+2C02">>
    [] c = "U+2C33" -> <<"U+2C03">> [] c = "U+2C34" -> <<"U+2C04">>
    [] c = "U+2C35" -> <<"U+2C05">> [] c = "U+2C36" -> <<"U+2C06">>
    [] c = "U+2C37" -> <<"U+2C07">> [] c = "U+2C38" -> <<"U+2C08">>
    [] c = "U+2C39" -> <<"U+2C09">> [] c = "U+2C3A" -> <<"U+2C0A">>
    [] c = "U+2C3B" -> <<"U+2C0B">> [] c = "U+2C3C" -> <<"U+2C0C">>
    [] c = "U+2C3D" -> <<"U+2C0D">> [] c = "U+2C3E" -> <<"U+2C0E">>
    [] c = "U+2C3F" -> <<"U+2C0F">> [] c = "U+2C40" -> <<"U+2C10">>
    [] c = "U+2C41" -> <<"U+2C11">> [] c = "U+2C42" -> <<"U+2C12">>
    [] c = "U+2C43" -> <<"U+2C13">> [] c = "U+2C44" -> <<"U+2C14">>
    [] c = "U+2C45" -> <<"U+2C15">> [] c = "U+2C46" -> <<"U+2C16">>
    [] c = "U+2C47" -> <<"U+2C17">> [] c = "U+2C48" -> <<"U+2C18">>
    [] c = "U+2C49" -> <<"U+2C19">> [] c = "U+2C4A" -> <<"U+2C1A">>
    [] c = "U+2C4B" -> <<"U+2C1B">> [] c = "U+2C4C" -> <<"U+2C1C">>
    [] c = "U+2C4D" -> <<"U+2C1D">> [] c = "U+2C4E" -> <<"U+2C1E">>
    [] c = "U+2C4F" -> <<"U+2C1F">> [] c = "U+2C50" -> <<"U+2C20">>
    [] c = "U+2C51" -> <<"U+2C21">> [] c = "U+2C52" -> <<"U+2C22">>
    [] c = "U+2C53" -> <<"U+2C23">> [] c = "U+2C54" -> <<"U+2C24">>
    [] c = "U+2C55" -> <<"U+2C25">> [] c = "U+2C56" -> <<"U+2C26">>
    [] c = "U+2C57" -> <<"U+2C27">> [] c = "U+2C58" -> <<"U+2C28">>
    [] c = "U+2C59" -> <<"U+2C29">> [] c = "U+2C5A" -> <<"U+2C2A">>
    [] c = "U+2C5B" -> <<"U+2C2B">> [] c = "U+2C5C" -> <<"U+2C2C">>
    [] c = "U+2C5D" -> <<"U+2C2D">> [] c = "U+2C5E" -> <<"U+2C2E">>
    [] c = "U+2C5F" -> <<"U+2C2F">> [] c = "U+2C61" -> <<"U+2C60">>
    [] c = "U+2C65" -> <<"U+023A">> [] c = "U+2C66" -> <<"U+023E">>
    [] c = "U+2C68" -> <<"U+2C67">> [] c = "U+2C6A" -> <<"U+2C69">>
    [] c = "U+2C6C" -> <<"U+2C6B">> [] c = "U+2C73" -> <<"U+2C72">>
    [] c = "U+2C76" -> <<"U+2C75">> [] c = "U+2C81" -> <<"U+2C80">>
    [] c = "U+2C83" -> <<"U+2C82">> [] c = "U+2C85" -> <<"U+2C84">>
    [] c = "U+2C87" -> <<"U+2C86">> [] c = "U+2C89" -> <<"U+2C88">>
    [] c = "U+2C8B" -> <<"U+2C8A">> [] c = "U+2C8D" -> <<"U+2C8C">>
    [] c = "U+2C8F" -> <<"U+2C8E">> [] c = "U+2C91" -> <<"U+2C90">>
    [] c = "U+2C93" -> <<"U+2C92">> [] c = "U+2C95" -> <<"U+2C94">>
    [] c = "U+2C97" -> <<"U+2C96">> [] c = "U+2C99" -> <<"U+2C98">>
    [] c = "U+2C9B" -> <<"U+2C9A">> [] c = "U+2C9D" -> <<"U+2C9C">>
    [] c = "U+2C9F" -> <<"U+2C9E">> [] c = "U+2CA1" -> <<"U+2CA0">>
    [] c = "U+2CA3" -> <<"U+2CA2">> [] c = "U+2CA5" -> <<"U+2CA4">>
    [] c = "U+2CA7" -> <<"U+2CA6">> [] c = "U+2CA9" -> <<"U+2CA8">>
    [] c = "U+2CAB" -> <<"U+2CAA">> [] c = "U+2CAD" -> <<"U+2CAC">>
    [] c = "U+2CAF" -> <<"U+2CAE">> [] c = "U+2CB1" -> <<"U+2CB0">>
    [] c = "U+2CB3" -> <<"U+2CB2">> [] c = "U+2CB5" -> <<"U+2CB4">>
    [] c = "U+2CB7" -> <<"U+2CB6">> [] c = "U+2CB9" -> <<"U+2CB8">>
    [] c = "U+2CBB" -> <<"U+2CBA">> [] c = "U+2CBD" -> <<"U+2CBC">>
    [] c = "U+2CBF" -> <<"U+2CBE">> [] c = "U+2CC1" -> <<"U+2CC0">>
    [] c = "U+2CC3" -> <<"U+2CC2">> [] c = "U+2CC5" -> <<"U+2CC4">>
    [] c = "U+2CC7" -> <<"U+2CC6">> [] c = "U+2CC9" -> <<"U+2CC8">>
    [] c = "U+2CCB" -> <<"U+2CCA">> [] c = "U+2CCD" -> <<"U+2CCC">>
    [] c = "U+2CCF" -> <<"U+2CCE">> [] c = "U+2CD1" -> <<"U+2CD0">>
    [] c = "U+2CD3" -> <<"U+2CD2">> [] c = "U+2CD5" -> <<"U+2CD4">>
    [] c = "U+2CD7" -> <<"U+2CD6">> [] c = "U+2CD9" -> <<"U+2CD8">>
    [] c = "U+2CDB" -> <<"U+2CDA">> [] c = "U+2CDD" -> <<"U+2CDC">>
    [] c = "U+2CDF" -> <<"U+2CDE">> [] c = "U+2CE1" -> <<"U+2CE0">>
    [] c = "U+2CE3" -> <<"U+2CE2">> [] c = "U+2CEC" -> <<"U+2CEB">>
    [] c = "U+2CEE" -> <<"U+2CED">> [] c = "U+2CF3" -> <<"U+2CF2">>
    [] c = "U+2D00" -> <<"U+10A0">> [] c = "U+2D01" -> <<"U+10A1">>
    [] c = "U+2D02" -> <<"U+10A2">> [] c = "U+2D03" -> <<"U+10A3">>
    [] c = "U+2D04" -> <<"U+10A4">> [] c = "U+2D05" -> <<"U+10A5">>
    [] c = "U+2D06" -> <<"U+10A6">> [] c = "U+2D07" -> <<"U+10A7">>
    [] c = "U+2D08" -> <<"U+10A8">> [] c = "U+2D09" -> <<"U+10A9">>
    [] c = "U+2D0A" -> <<"U+10AA">> [] c = "U+2D0B" -> <<"U+10AB">>
    [] c = "U+2D0C" -> <<"U+10AC">> [] c = "U+2D0D" -> <<"U+10AD">>
    [] c = "U+2D0E" -> <<"U+10AE">> [] c = "U+2D0F" -> <<"U+10AF">>
    [] c = "U+2D10" -> <<"U+10B0">> [] c = "U+2D11" -> <<"U+10B1">>
    [] c = "U+2D12" -> <<"U+10B2">> [] c = "U+2D13" -> <<"U+10B3">>
    [] c = "U+2D14" -> <<"U+10B4">> [] c = "U+2D15" -> <<"U+10B5">>
    [] c = "U+2D16" -> <<"U+10B6">> [] c = "U+2D17" -> <<"U+10B7">>
    [] c = "U+2D18" -> <<"U+10B8">> [] c = "U+2D19" -> <<"U+10B9">>
    [] c = "U+2D1A" -> <<"U+10BA">> [] c = "U+2D1B" -> <<"U+10BB">>
    [] c = "U+2D1C" -> <<"U+10BC">> [] c = "U+2D1D" -> <<"U+10BD">>
    [] c = "U+2D1E" -> <<"U+10BE">> [] c = "U+2D1F" -> <<"U+10BF">>
    [] c = "U+2D20" -> <<"U+10C0">> [] c = "U+2D21" -> <<"U+10C1">>
    [] c = "U+2D22" -> <<"U+10C2">> [] c = "U+2D23" -> <<"U+10C3">>
    [] c = "U+2D24" -> <<"U+10C4">> [] c = "U+2D25" -> <<"U+10C5">>
    [] c = "U+2D27" -> <<"U+10C7">> [] c = "U+2D2D" -> <<"U+10CD">>
    [] c = "U+A641" -> <<"U+A640">> [] c = "U+A643" -> <<"U+A642">>
    [] c = "U+A645" -> <<"U+A644">> [] c = "U+A647" -> <<"U+A646">>
    [] c = "U+A649" -> <<"U+A648">> [] c = "U+A64B" -> <<"U+A64A">>
    [] c = "U+A64D" -> <<"U+A64C">> [] c = "U+A64F" -> <<"U+A64E">>
    [] c = "U+A651" -> <<"U+A650">> [] c = "U+A653" -> <<"U+A652">>
    [] c = "U+A655" -> <<"U+A654">> [] c = "U+A657" -> <<"U+A656">>
    [] c = "U+A659" -> <<"U+A658">> [] c = "U+A65B" -> <<"U+A65A">>
    [] c = "U+A65D" -> <<"U+A65C">> [] c = "U+A65F" -> <<"U+A65E">>
    [] c = "U+A661" -> <<"U+A660">> [] c = "U+A663" -> <<"U+A662">>
    [] c = "U+A665" -> <<"U+A664">> [] c = "U+A667" -> <<"U+A666">>
    [] c = "U+A669" -> <<"U+A668">> [] c = "U+A66B" -> <<"U+A66A">>
    [] c = "U+A66D" -> <<"U+A66C">> [] c = "U+A681" -> <<"U+A680">>
    [] c = "U+A683" -> <<"U+A682">> [] c = "U+A685" -> <<"U+A684">>
    [] c = "U+A687" -> <<"U+A686">> [] c = "U+A689" -> <<"U+A688">>
    [] c = "U+A68B" -> <<"U+A68A">> [] c = "U+A68D" -> <<"U+A68C">>
    [] c = "U+A68F" -> <<"U+A68E">> [] c = "U+A691" -> <<"U+A690">>
    [] c = "U+A693" -> <<"U+A692">> [] c = "U+A695" -> <<"U+A694">>
    [] c = "U+A697" -> <<"U+A696">> [] c = "U+A699" -> <<"U+A698">>
    [] c = "U+A69B" -> <<"U+A69A">> [] c = "U+A723" -> <<"U+A722">>
    [] c = "U+A725" -> <<"U+A724">> [] c = "U+A727" -> <<"U+A726">>
    [] c = "U+A729" -> <<"U+A728">> [] c = "U+A72B" -> <<"U+A72A">>
    [] c = "U+A72D" -> <<"U+A72C">> [] c = "U+A72F" -> <<"U+A72E">>
    [] c = "U+A733" -> <<"U+A732">> [] c = "U+A735" -> <<"U+A734">>
    [] c = "U+A737" -> <<"U+A736">> [] c = "U+A739" -> <<"U+A738">>
    [] c = "U+A73B" -> <<"U+A73A">> [] c = "U+A73D" -> <<"U+A73C">>
    [] c = "U+A73F" -> <<"U+A73E">> [] c = "U+A741" -> <<"U+A740">>
    [] c = "U+A743" -> <<"U+A742">> [] c = "U+A745" -> <<"U+A744">>
    [] c = "U+A747" -> <<"U+A746">> [] c = "U+A749" -> <<"U+A748">>
    [] c = "U+A74B" -> <<"U+A74A">> [] c = "U+A74D" -> <<"U+A74C">>
    [] c = "U+A74F" -> <<"U+A74E">> [] c = "U+A751" -> <<"U+A750">>
    [] c = "U+A753" -> <<"U+A752">> [] c = "U+A755" -> <<"U+A754">>
    [] c = "U+A757" -> <<"U+A756">> [] c = "U+A759" -> <<"U+A758">>
    [] c = "U+A75B" -> <<"U+A75A">> [] c = "U+A75D" -> <<"U+A75C">>
    [] c = "U+A75F" -> <<"U+A75E">> [] c = "U+A761" -> <<"U+A760">>
    [] c = "U+A763" -> <<"U+A762">> [] c = "U+A765" -> <<"U+A764">>
    [] c = "U+A767" -> <<"U+A766">> [] c = "U+A769" -> <<"U+A768">>
    [] c = "U+A76B" -> <<"U+A76A">> [] c = "U+A76D" -> <<"U+A76C">>
    [] c = "U+A76F" -> <<"U+A76E">> [] c = "U+A77A" -> <<"U+A779">>
    [] c = "U+A77C" -> <<"U+A77B">> [] c = "U+A77F" -> <<"U+A77E">>
    [] c = "U+A781" -> <<"U+A780">> [] c = "U+A783" -> <<"U+A782">>
    [] c = "U+A785" -> <<"U+A784">> [] c = "U+A787" -> <<"U+A786">>
    [] c = "U+A78C" -> <<"U+A78B">> [] c = "U+A791" -> <<"U+A790">>
    [] c = "U+A793" -> <<"U+A792">> [] c = "U+A794" -> <<"U+A7C4">>
    [] c = "U+A797" -> <<"U+A796">> [] c = "U+A799" -> <<"U+A798">>
    [] c = "U+A79B" -> <<"U+A79A">> [] c = "U+A79D" -> <<"U+A79C">>
    [] c = "U+A79F" -> <<"U+A79E">> [] c = "U+A7A1" -> <<"U+A7A0">>
    [] c = "U+A7A3" -> <<"U+A7A2">> [] c = "U+A7A5" -> <<"U+A7A4">>
    [] c = "U+A7A7" -> <<"U+A7A6">> [] c = "U+A7A9" -> <<"U+A7A8">>
    [] c = "U+A7B5" -> <<"U+A7B4">> [] c = "U+A7B7" -> <<"U+A7B6">>
    [] c = "U+A7B9" -> <<"U+A7B8">> [] c = "U+A7BB" -> <<"U+A7BA">>
    [] c = "U+A7BD" -> <<"U+A7BC">> [] c = "U+A7BF" -> <<"U+A7BE">>
    [] c = "U+A7C1" -> <<"U+A7C0">> [] c = "U+A7C3" -> <<"U+A7C2">>
    [] c = "U+A7C8" -> <<"U+A7C7">> [] c = "U+A7CA" -> <<"U+A7C9">>
    [] c = "U+A7D1" -> <<"U+A7D0">> [] c = "U+A7D7" -> <<"U+A7D6">>
    [] c = "U+A7D9" -> <<"U+A7D8">> [] c = "U+A7F6" -> <<"U+A7F5">>
    [] c = "U+AB53" -> <<"U+A7B3">> [] c = "U+AB70" -> <<"U+13A0">>
    [] c = "U+AB71" -> <<"U+13A1">> [] c = "U+AB72" -> <<"U+13A2">>
    [] c = "U+AB73" -> <<"U+13A3">> [] c = "U+AB74" -> <<"U+13A4">>
    [] c = "U+AB75" -> <<"U+13A5">> [] c = "U+AB76" -> <<"U+13A6">>
    [] c = "U+AB77" -> <<"U+13A7">> [] c = "U+AB78" -> <<"U+13A8">>
    [] c = "U+AB79" -> <<"U+13A9">> [] c = "U+AB7A" -> <<"U+13AA">>
    [] c = "U+AB7B" -> <<"U+13AB">> [] c = "U+AB7C" -> <<"U+13AC">>
    [] c = "U+AB7D" -> <<"U+13AD">> [] c = "U+AB7E" -> <<"U+13AE">>
    [] c = "U+AB7F" -> <<"U+13AF">> [] c = "U+AB80" -> <<"U+13B0">>
    [] c = "U+AB81" -> <<"U+13B1">> [] c = "U+AB82" -> <<"U+13B2">>
    [] c = "U+AB83" -> <<"U+13B3">> [] c = "U+AB84" -> <<"U+13B4">>
    [] c = "U+AB85" -> <<"U+13B5">> [] c = "U+AB86" -> <<"U+13B6">>
    [] c = "U+AB87" -> <<"U+13B7">> [] c = "U+AB88" -> <<"U+13B8">>
    [] c = "U+AB89" -> <<"U+13B9">> [] c = "U+AB8A" -> <<"U+13BA">>
    [] c = "U+AB8B" -> <<"U+13BB">> [] c = "U+AB8C" -> <<"U+13BC">>
    [] c = "U+AB8D" -> <<"U+13BD">> [] c = "U+AB8E" -> <<"U+13BE">>
    [] c = "U+AB8F" -> <<"U+13BF">> [] c = "U+AB90" -> <<"U+13C0">>
    [] c = "U+AB91" -> <<"U+13C1">> [] c = "U+AB92" -> <<"U+13C2">>
    [] c = "U+AB93" -> <<"U+13C3">> [] c = "U+AB94" -> <<"U+13C4">>
    [] c = "U+AB95" -> <<"U+13C5">> [] c = "U+AB96" -> <<"U+13C6">>
    [] c = "U+AB97" -> <<"U+13C7">> [] c = "U+AB98" -> <<"U+13C8">>
    [] c = "U+AB99" -> <<"U+13C9">> [] c = "U+AB9A" -> <<"U+13CA">>
    [] c = "U+AB9B" -> <<"U+13CB">> [] c = "U+AB9C" -> <<"U+13CC">>
    [] c = "U+AB9D" -> <<"U+13CD">> [] c = "U+AB9E" -> <<"U+13CE">>
    [] c = "U+AB9F" -> <<"U+13CF">> [] c = "U+ABA0" -> <<"U+13D0">>
    [] c = "U+ABA1" -> <<"U+13D1">> [] c = "U+ABA2" -> <<"U+13D2">>
    [] c = "U+ABA3" -> <<"U+13D3">> [] c = "U+ABA4" -> <<"U+13D4">>
    [] c = "U+ABA5" -> <<"U+13D5">> [] c = "U+ABA6" -> <<"U+13D6">>
    [] c = "U+ABA7" -> <<"U+13D7">> [] c = "U+ABA8" -> <<"U+13D8">>
    [] c = "U+ABA9" -> <<"U+13D9">> [] c = "U+ABAA" -> <<"U+13DA">>
    [] c = "U+ABAB" -> <<"U+13DB">> [] c = "U+ABAC" -> <<"U+13DC">>
    [] c = "U+ABAD" -> <<"U+13DD">> [] c = "U+ABAE" -> <<"U+13DE">>
    [] c = "U+ABAF" -> <<"U+13DF">> [] c = "U+ABB0" -> <<"U+13E0">>
    [] c = "U+ABB1" -> <<"U+13E1">> [] c = "U+ABB2" -> <<"U+13E2">>
    [] c = "U+ABB3" -> <<"U+13E3">> [] c = "U+ABB4" -> <<"U+13E4">>
    [] c = "U+ABB5" -> <<"U+13E5">> [] c = "U+ABB6" -> <<"U+13E6">>
    [] c = "U+ABB7" -> <<"U+13E7">> [] c = "U+ABB8" -> <<"U+13E8">>
    [] c = "U+ABB9" -> <<"U+13E9">> [] c = "U+ABBA" -> <<"U+13EA">>
    [] c = "U+ABBB" -> <<"U+13EB">> [] c = "U+ABBC" -> <<"U+13EC">>
    [] c = "U+ABBD" -> <<"U+13ED">> [] c = "U+ABBE" -> <<"U+13EE">>
    [] c = "U+ABBF" -> <<"U+13EF">> [] c = "U+FB00" -> <<"F", "F">>
    [] c = "U+FB01" -> <<"F", "I">> [] c = "U+FB02" -> <<"F", "L">>
    [] c = "U+FB03" -> <<"F", "F", "I">> [] c = "U+FB04" -> <<"F", "F", "L">>
    [] c = "U+FB05" -> <<"S", "T">> [] c = "U+FB06" -> <<"S", "T">>
    [] c = "U+FB13" -> <<"U+0544", "U+0546">>
    [] c = "U+FB14" -> <<"U+0544", "U+0535">>
    [] c = "U+FB15" -> <<"U+0544", "U+053B">>
    [] c = "U+FB16" -> <<"U+054E", "U+0546">>
    [] c = "U+FB17" -> <<"U+0544", "U+053D">> [] c = "U+FF41" -> <<"U+FF21">>
    [] c = "U+FF42" -> <<"U+FF22">> [] c = "U+FF43" -> <<"U+FF23">>
    [] c = "U+FF44" -> <<"U+FF24">> [] c = "U+FF45" -> <<"U+FF25">>
    [] c = "U+FF46" -> <<"U+FF26">> [] c = "U+FF47" -> <<"U+FF27">>
    [] c = "U+FF48" -> <<"U+FF28">> [] c = "U+FF49" -> <<"U+FF29">>
    [] c = "U+FF4A" -> <<"U+FF2A">> [] c = "U+FF4B" -> <<"U+FF2B">>
    [] c = "U+FF4C" -> <<"U+FF2C">> [] c = "U+FF4D" -> <<"U+FF2D">>
    [] c = "U+FF4E" -> <<"U+FF2E">> [] c = "U+FF4F" -> <<"U+FF2F">>
    [] c = "U+FF50" -> <<"U+FF30">> [] c = "U+FF51" -> <<"U+FF31">>
    [] c = "U+FF52" -> <<"U+FF32">> [] c = "U+FF53" -> <<"U+FF33">>
    [] c = "U+FF54" -> <<"U+FF34">> [] c = "U+FF55" -> <<"U+FF35">>
    [] c = "U+FF56" -> <<"U+FF36">> [] c = "U+FF57" -> <<"U+FF37">>
    [] c = "U+FF58" -> <<"U+FF38">> [] c = "U+FF59" -> <<"U+FF39">>
    [] c = "U+FF5A" -> <<"U+FF3A">> [] c = "U+10428" -> <<"U+10400">>
    [] c = "U+10429" -> <<"U+10401">> [] c = "U+1042A" -> <<"U+10402">>
    [] c = "U+1042B" -> <<"U+10403">> [] c = "U+1042C" -> <<"U+10404">>
    [] c = "U+1042D" -> <<"U+10405">> [] c = "U+1042E" -> <<"U+10406">>
    [] c = "U+1042F" -> <<"U+10407">> [] c = "U+10430" -> <<"U+10408">>
    [] c = "U+10431" -> <<"U+10409">> [] c = "U+10432" -> <<"U+1040A">>
    [] c = "U+10433" -> <<"U+1040B">> [] c = "U+10434" -> <<"U+1040C">>
    [] c = "U+10435" -> <<"U+1040D">> [] c = "U+10436" -> <<"U+1040E">>
    [] c = "U+10437" -> <<"U+1040F">> [] c = "U+10438" -> <<"U+10410">>
    [] c = "U+10439" -> <<"U+10411">> [] c = "U+1043A" -> <<"U+10412">>
    [] c = "U+1043B" -> <<"U+10413">> [] c = "U+1043C" -> <<"U+10414">>
    [] c = "U+1043D" -> <<"U+10415">> [] c = "U+1043E" -> <<"U+10416">>
    [] c = "U+1043F" -> <<"U+10417">> [] c = "U+10440" -> <<"U+10418">>
    [] c = "U+10441" -> <<"U+10419">> [] c = "U+10442" -> <<"U+1041A">>
    [] c = "U+10443" -> <<"U+1041B">> [] c = "U+10444" -> <<"U+1041C">>
    [] c = "U+10445" -> <<"U+1041D">> [] c = "U+10446" -> <<"U+1041E">>
    [] c = "U+10447" -> <<"U+1041F">> [] c = "U+10448" -> <<"U+10420">>
    [] c = "U+10449" -> <<"U+10421">> [] c = "U+1044A" -> <<"U+10422">>
    [] c = "U+1044B" -> <<"U+10423">> [] c = "U+1044C" -> <<"U+10424">>
    [] c = "U+1044D" -> <<"U+10425">> [] c = "U+1044E" -> <<"U+10426">>
    [] c = "U+1044F" -> <<"U+10427">> [] c = "U+104D8" -> <<"U+104B0">>
    [] c = "U+104D9" -> <<"U+104B1">> [] c = "U+104DA" -> <<"U+104B2">>
    [] c = "U+104DB" -> <<"U+104B3">> [] c = "U+104DC" -> <<"U+104B4">>
    [] c = "U+104DD" -> <<"U+104B5">> [] c = "U+104DE" -> <<"U+104B6">>
    [] c = "U+104DF" -> <<"U+104B7">> [] c = "U+104E0" -> <<"U+104B8">>
    [] c = "U+104E1" -> <<"U+104B9">> [] c = "U+104E2" -> <<"U+104BA">>
    [] c = "U+104E3" -> <<"U+104BB">> [] c = "U+104E4" -> <<"U+104BC">>
    [] c = "U+104E5" -> <<"U+104BD">> [] c = "U+104E6" -> <<"U+104BE">>
    [] c = "U+104E7" -> <<"U+104BF">> [] c = "U+104E8" -> <<"U+104C0">>
    [] c = "U+104E9" -> <<"U+104C1">> [] c = "U+104EA" -> <<"U+104C2">>
    [] c = "U+104EB" -> <<"U+104C3">> [] c = "U+104EC" -> <<"U+104C4">>
    [] c = "U+104ED" -> <<"U+104C5">> [] c = "U+104EE" -> <<"U+104C6">>
    [] c = "U+104EF" -> <<"U+104C7">> [] c = "U+104F0" -> <<"U+104C8">>
    [] c = "U+104F1" -> <<"U+104C9">> [] c = "U+104F2" -> <<"U+104CA">>
    [] c = "U+104F3" -> <<"U+104CB">> [] c = "U+104F4" -> <<"U+104CC">>
    [] c = "U+104F5" -> <<"U+104CD">> [] c = "U+104F6" -> <<"U+104CE">>
    [] c = "U+104F7" -> <<"U+104CF">> [] c = "U+104F8" -> <<"U+104D0">>
    [] c = "U+104F9" -> <<"U+104D1">> [] c = "U+104FA" -> <<"U+104D2">>
    [] c = "U+104FB" -> <<"U+104D3">> [] c = "U+10597" -> <<"U+10570">>
    [] c = "U+10598" -> <<"U+10571">> [] c = "U+10599" -> <<"U+10572">>
    [] c = "U+1059A" -> <<"U+10573">> [] c = "U+1059B" -> <<"U+10574">>
    [] c = "U+1059C" -> <<"U+10575">> [] c = "U+1059D" -> <<"U+10576">>
    [] c = "U+1059E" -> <<"U+10577">> [] c = "U+1059F" -> <<"U+10578">>
    [] c = "U+105A0" -> <<"U+10579">> [] c = "U+105A1" -> <<"U+1057A">>
    [] c = "U+105A3" -> <<"U+1057C">> [] c = "U+105A4" -> <<"U+1057D">>
    [] c = "U+105A5" -> <<"U+1057E">> [] c = "U+105A6" -> <<"U+1057F">>
    [] c = "U+105A7" -> <<"U+10580">> [] c = "U+105A8" -> <<"U+10581">>
    [] c = "U+105A9" -> <<"U+10582">> [] c = "U+105AA" -> <<"U+10583">>
    [] c = "U+105AB" -> <<"U+10584">> [] c = "U+105AC" -> <<"U+10585">>
    [] c = "U+105AD" -> <<"U+10586">> [] c = "U+105AE" -> <<"U+10587">>
    [] c = "U+105AF" -> <<"U+10588">> [] c = "U+105B0" -> <<"U+10589">>
    [] c = "U+105B1" -> <<"U+1058A">> [] c = "U+105B3" -> <<"U+1058C">>
    [] c = "U+105B4" -> <<"U+1058D">> [] c = "U+105B5" -> <<"U+1058E">>
    [] c = "U+105B6" -> <<"U+1058F">> [] c = "U+105B7" -> <<"U+10590">>
    [] c = "U+105B8" -> <<"U+10591">> [] c = "U+105B9" -> <<"U+10592">>
    [] c = "U+105BB" -> <<"U+10594">> [] c = "U+105BC" -> <<"U+10595">>
    [] c = "U+10CC0" -> <<"U+10C80">> [] c = "U+10CC1" -> <<"U+10C81">>
    [] c = "U+10CC2" -> <<"U+10C82">> [] c = "U+10CC3" -> <<"U+10C83">>
    [] c = "U+10CC4" -> <<"U+10C84">> [] c = "U+10CC5" -> <<"U+10C85">>
    [] c = "U+10CC6" -> <<"U+10C86">> [] c = "U+10CC7" -> <<"U+10C87">>
    [] c = "U+10CC8" -> <<"U+10C88">> [] c = "U+10CC9" -> <<"U+10C89">>
    [] c = "U+10CCA" -> <<"U+10C8A">> [] c = "U+10CCB" -> <<"U+10C8B">>
    [] c = "U+10CCC" -> <<"U+10C8C">> [] c = "U+10CCD" -> <<"U+10C8D">>
    [] c = "U+10CCE" -> <<"U+10C8E">> [] c = "U+10CCF" -> <<"U+10C8F">>
    [] c = "U+10CD0" -> <<"U+10C90">> [] c = "U+10CD1" -> <<"U+10C91">>
    [] c = "U+10CD2" -> <<"U+10C92">> [] c = "U+10CD3" -> <<"U+10C93">>
    [] c = "U+10CD4" -> <<"U+10C94">> [] c = "U+10CD5" -> <<"U+10C95">>
    [] c = "U+10CD6" -> <<"U+10C96">> [] c = "U+10CD7" -> <<"U+10C97">>
    [] c = "U+10CD8" -> <<"U+10C98">> [] c = "U+10CD9" -> <<"U+10C99">>
    [] c = "U+10CDA" -> <<"U+10C9A">> [] c = "U+10CDB" -> <<"U+10C9B">>
    [] c = "U+10CDC" -> <<"U+10C9C">> [] c = "U+10CDD" -> <<"U+10C9D">>
    [] c = "U+10CDE" -> <<"U+10C9E">> [] c = "U+10CDF" -> <<"U+10C9F">>
    [] c = "U+10CE0" -> <<"U+10CA0">> [] c = "U+10CE1" -> <<"U+10CA1">>
    [] c = "U+10CE2" -> <<"U+10CA2">> [] c = "U+10CE3" -> <<"U+10CA3">>
    [] c = "U+10CE4" -> <<"U+10CA4">> [] c = "U+10CE5" -> <<"U+10CA5">>
    [] c = "U+10CE6" -> <<"U+10CA6">> [] c = "U+10CE7" -> <<"U+10CA7">>
    [] c = "U+10CE8" -> <<"U+10CA8">> [] c = "U+10CE9" -> <<"U+10CA9">>
    [] c = "U+10CEA" -> <<"U+10CAA">> [] c = "U+10CEB" -> <<"U+10CAB">>
    [] c = "U+10CEC" -> <<"U+10CAC">> [] c = "U+10CED" -> <<"U+10CAD">>
    [] c = "U+10CEE" -> <<"U+10CAE">> [] c = "U+10CEF" -> <<"U+10CAF">>
    [] c = "U+10CF0" -> <<"U+10CB0">> [] c = "U+10CF1" -> <<"U+10CB1">>
    [] c = "U+10CF2" -> <<"U+10CB2">> [] c = "U+118C0" -> <<"U+118A0">>
    [] c = "U+118C1" -> <<"U+118A1">> [] c = "U+118C2" -> <<"U+118A2">>
    [] c = "U+118C3" -> <<"U+118A3">> [] c = "U+118C4" -> <<"U+118A4">>
    [] c = "U+118C5" -> <<"U+118A5">> [] c = "U+118C6" -> <<"U+118A6">>
    [] c = "U+118C7" -> <<"U+118A7">> [] c = "U+118C8" -> <<"U+118A8">>
    [] c = "U+118C9" -> <<"U+118A9">> [] c = "U+118CA" -> <<"U+118AA">>
    [] c = "U+118CB" -> <<"U+118AB">> [] c = "U+118CC" -> <<"U+118AC">>
    [] c = "U+118CD" -> <<"U+118AD">> [] c = "U+118CE" -> <<"U+118AE">>
    [] c = "U+118CF" -> <<"U+118AF">> [] c = "U+118D0" -> <<"U+118B0">>
    [] c = "U+118D1" -> <<"U+118B1">> [] c = "U+118D2" -> <<"U+118B2">>
    [] c = "U+118D3" -> <<"U+118B3">> [] c = "U+118D4" -> <<"U+118B4">>
    [] c = "U+118D5" -> <<"U+118B5">> [] c = "U+118D6" -> <<"U+118B6">>
    [] c = "U+118D7" -> <<"U+118B7">> [] c = "U+118D8" -> <<"U+118B8">>
    [] c = "U+118D9" -> <<"U+118B9">> [] c = "U+118DA" -> <<"U+118BA">>
    [] c = "U+118DB" -> <<"U+118BB">> [] c = "U+118DC" -> <<"U+118BC">>
    [] c = "U+118DD" -> <<"U+118BD">> [] c = "U+118DE" -> <<"U+118BE">>
    [] c = "U+118DF" -> <<"U+118BF">> [] c = "U+16E60" -> <<"U+16E40">>
    [] c = "U+16E61" -> <<"U+16E41">> [] c = "U+16E62" -> <<"U+16E42">>
    [] c = "U+16E63" -> <<"U+16E43">> [] c = "U+16E64" -> <<"U+16E44">>
    [] c = "U+16E65" -> <<"U+16E45">> [] c = "U+16E66" -> <<"U+16E46">>
    [] c = "U+16E67" -> <<"U+16E47">> [] c = "U+16E68" -> <<"U+16E48">>
    [] c = "U+16E69" -> <<"U+16E49">> [] c = "U+16E6A" -> <<"U+16E4A">>
    [] c = "U+16E6B" -> <<"U+16E4B">> [] c = "U+16E6C" -> <<"U+16E4C">>
    [] c = "U+16E6D" -> <<"U+16E4D">> [] c = "U+16E6E" -> <<"U+16E4E">>
    [] c = "U+16E6F" -> <<"U+16E4F">> [] c = "U+16E70" -> <<"U+16E50">>
    [] c = "U+16E71" -> <<"U+16E51">> [] c = "U+16E72" -> <<"U+16E52">>
    [] c = "U+16E73" -> <<"U+16E53">> [] c = "U+16E74" -> <<"U+16E54">>
    [] c = "U+16E75" -> <<"U+16E55">> [] c = "U+16E76" -> <<"U+16E56">>
    [] c = "U+16E77" -> <<"U+16E57">> [] c = "U+16E78" -> <<"U+16E58">>
    [] c = "U+16E79" -> <<"U+16E59">> [] c = "U+16E7A" -> <<"U+16E5A">>
    [] c = "U+16E7B" -> <<"U+16E5B">> [] c = "U+16E7C" -> <<"U+16E5C">>
    [] c = "U+16E7D" -> <<"U+16E5D">> [] c = "U+16E7E" -> <<"U+16E5E">>
    [] c = "U+16E7F" -> <<"U+16E5F">> [] c = "U+1E922" -> <<"U+1E900">>
    [] c = "U+1E923" -> <<"U+1E901">> [] c = "U+1E924" -> <<"U+1E902">>
    [] c = "U+1E925" -> <<"U+1E903">> [] c = "U+1E926" -> <<"U+1E904">>
    [] c = "U+1E927" -> <<"U+1E905">> [] c = "U+1E928" -> <<"U+1E906">>
    [] c = "U+1E929" -> <<"U+1E907">> [] c = "U+1E92A" -> <<"U+1E908">>
    [] c = "U+1E92B" -> <<"U+1E909">> [] c = "U+1E92C" -> <<"U+1E90A">>
    [] c = "U+1E92D" -> <<"U+1E90B">> [] c = "U+1E92E" -> <<"U+1E90C">>
    [] c = "U+1E92F" -> <<"U+1E90D">> [] c = "U+1E930" -> <<"U+1E90E">>
    [] c = "U+1E931" -> <<"U+1E90F">> [] c = "U+1E932" -> <<"U+1E910">>
    [] c = "U+1E933" -> <<"U+1E911">> [] c = "U+1E934" -> <<"U+1E912">>
    [] c = "U+1E935" -> <<"U+1E913">> [] c = "U+1E936" -> <<"U+1E914">>
    [] c = "U+1E937" -> <<"U+1E915">> [] c = "U+1E938" -> <<"U+1E916">>
    [] c = "U+1E939" -> <<"U+1E917">> [] c = "U+1E93A" -> <<"U+1E918">>
    [] c = "U+1E93B" -> <<"U+1E919">> [] c = "U+1E93C" -> <<"U+1E91A">>
    [] c = "U+1E93D" -> <<"U+1E91B">> [] c = "U+1E93E" -> <<"U+1E91C">>
    [] c = "U+1E93F" -> <<"U+1E91D">> [] c = "U+1E940" -> <<"U+1E91E">>
    [] c = "U+1E941" -> <<"U+1E91F">> [] c = "U+1E942" -> <<"U+1E920">>
    [] c = "U+1E943" -> <<"U+1E921">>
    [] OTHER -> <<c>>

\* str.upper
RECURSIVE Upper(_)
Upper(s) == IF s = <<>> THEN <<>> ELSE UpperChar(Head(s)) \o Upper(Tail(s))

\* the characters str.strip() removes, those with str.isspace(): U+0009..
\* U+000D, U+001C..U+0020, U+0085, U+00A0 and the Unicode spaces above
WhiteSpace ==
  {"\t", "\n", "", "\f", "\r", "", "", "",
   "", " ", "", " ", "U+1680", "U+2000", "U+2001", "U+2002",
   "U+2003", "U+2004", "U+2005", "U+2006", "U+2007", "U+2008", "U+2009", "U+200A",
   "U+2028", "U+2029", "U+202F", "U+205F", "U+3000"}

IsSpace(c) == c \in WhiteSpace

RECURSIVE LStrip(_)
LStrip(s) ==
  IF s # <<>> /\ IsSpace(Head(s)) THEN LStrip(Tail(s)) ELSE s

RECURSIVE RStrip(_)
RStrip(s) ==
  IF s # <<>> /\ IsSpace(s[Len(s)]) THEN RStrip(SubSeq(s, 1, Len(s) - 1)) ELSE s

\* str.strip
Strip(s) == RStrip(LStrip(s))

\* s[i:] (1-based i)
From(s, i) == SubSeq(s, i, Len(s))

\* str.startswith at position i
MatchAt(s, i, pat) ==
  /\ i + Len(pat) - 1 <= Len(s)
  /\ SubSeq(s, i, i + Len(pat) - 1) = pat

\* str.endswith
EndsWith(s, suf) ==
  /\ Len(suf) <= Len(s)
  /\ SubSeq(s, Len(s) - Len(suf) + 1, Len(s)) = suf

\* str.replace(old, new), old non-empty: every occurrence, left to right
RECURSIVE Replace(_, _, _)
Replace(s, old, new) ==
  IF s = <<>> THEN <<>>
  ELSE IF MatchAt(s, 1, old)
       THEN new \o Replace(From(s, Len(old) + 1), old, new)
       ELSE <<Head(s)>> \o Replace(Tail(s), old, new)

\* positions of character c in s
Positions(s, c) == {i \in 1..Len(s) : s[i] = c}

Max(S) == CHOOSE x \in S : \A y \in S : y <= x
Min(S) == CHOOSE x \in S : \A y \in S : x <= y

\* s.split(".")[0]
BeforeFirstDot(s) ==
  IF Positions(s, ".") = {} THEN s
  ELSE SubSeq(s, 1, Min(Positions(s, ".")) - 1)

\* a filter that keeps every character
KeepAll(s) == s

\* re.sub(r"\D", "", s)
RECURSIVE KeepDigits(_)
KeepDigits(s) ==
  IF s = <<>> THEN <<>>
  ELSE (IF Head(s) \in Digits THEN <<Head(s)>> ELSE <<>>) \o KeepDigits(Tail(s))

\* posixpath.basename
Basename(p) ==
  IF Positions(p, "/") = {} THEN p ELSE From(p, Max(Positions(p, "/")) + 1)

\* posixpath.join(a, b)
PathJoin(a, b) ==
  IF b # <<>> /\ Head(b) = "/" THEN b
  ELSE IF a = <<>> \/ a[Len(a)] = "/" THEN a \o b
  ELSE a \o <<"/">> \o b

\* index of the first character of the file name that is not a leading dot
RECURSIVE FirstNonDot(_, _)
FirstNonDot(p, i) ==
  IF i <= Len(p) /\ p[i] = "." THEN FirstNonDot(p, i + 1) ELSE i

\* posixpath.splitext(p)[0]: cut at the last dot of the file name, unless
\* that dot is one of the name's leading dots
SplitextRoot(p) ==
  LET sepIndex == IF Positions(p, "/") = {} THEN 0 ELSE Max(Positions(p, "/"))
      dots == Positions(p, ".")
      dotIndex == IF dots = {} THEN 0 ELSE Max(dots)
  IN IF dotIndex > sepIndex /\ FirstNonDot(p, sepIndex + 1) <= dotIndex
     THEN SubSeq(p, 1, dotIndex - 1)
     ELSE p

DotParquet == <<".", "p", "a", "r", "q", "u", "e", "t">>
DotPARQUET == <<".", "P", "A", "R", "Q", "U", "E", "T">>
DotCsv == <<".", "c", "s", "v">>

\* a _symbol_to_akshare_6 that does not cut at the first dot
symbol_to_akshare_6_whole(sym) == KeepDigits(Upper(Strip(sym)))

\* _symbol_to_akshare_6
symbol_to_akshare_6(sym) == KeepDigits(BeforeFirstDot(Upper(Strip(sym))))

\* main, lines 110-112
ParquetName(sym) ==
  Replace(IF ~EndsWith(sym, DotParquet) THEN sym \o DotParquet ELSE sym,
          DotPARQUET, DotParquet)

\* main, line 119
BaseName(parquet_name) == SplitextRoot(Basename(parquet_name))

(***************************************************************************)
(* Cells and frames.                                                       *)
(***************************************************************************)
\* pandas NaT: a missing timestamp
NaT == 0
\* numpy NaN: a missing number
NaN == 0
\* a raw cell that holds no value (None)
Null == 0
\* a raw cell that holds text which is neither a timestamp nor a number
Garbage == -1

\* pd.to_datetime(x, errors="coerce")
to_datetime(x) == IF x >= 1 THEN x ELSE NaT

\* a to_numeric that leaves what it cannot parse in place
to_numeric_ignore(x) == x

\* pd.to_numeric(x, errors="coerce")
to_numeric(x) == IF x >= 1 THEN x ELSE NaN

\* a dropna that looks at the date column only
DropNaDateOnly(df) == SelectSeq(df, LAMBDA r : r.date # NaT)

\* a frame with the columns date and Close is a sequence of [date, Close]
\* df.dropna(subset=["date", "Close"])
DropNa(df) == SelectSeq(df, LAMBDA r : r.date # NaT /\ r.Close # NaN)

\* numpy npysort, SMALL_QUICKSORT: ranges of at most this many elements
\* beyond the first are sorted by insertion
SMALL_QUICKSORT == 16

Swap(p, i, j) == [p EXCEPT ![i] = p[j], ![j] = p[i]]

\* do ++pi; while (v[*pi] < vp)
RECURSIVE ScanUp(_, _, _, _)
ScanUp(v, p, i, vp) == IF v[p[i]] < vp THEN ScanUp(v, p, i + 1, vp) ELSE i

\* do --pj; while (vp < v[*pj])
RECURSIVE ScanDown(_, _, _, _)
ScanDown(v, p, j, vp) == IF vp < v[p[j]] THEN ScanDown(v, p, j - 1, vp) ELSE j

RECURSIVE PartitionLoop(_, _, _, _, _)
PartitionLoop(v, p, pi, pj, vp) ==
  LET i == ScanUp(v, p, pi + 1, vp)
      j == ScanDown(v, p, pj - 1, vp)
  IN IF i >= j THEN [p |-> p, pi |-> i]
     ELSE PartitionLoop(v, Swap(p, i, j), i, j, vp)

\* one median-of-three partition of p[pl..pr]; pi is where the pivot lands
Partition(v, p, pl, pr) ==
  LET pm == pl + ((pr - pl) \div 2)
      p1 == IF v[p[pm]] < v[p[pl]] THEN Swap(p, pm, pl) ELSE p
      p2 == IF v[p1[pr]] < v[p1[pm]] THEN Swap(p1, pr, pm) ELSE p1
      p3 == IF v[p2[pm]] < v[p2[pl]] THEN Swap(p2, pm, pl) ELSE p2
      vp == v[p3[pm]]
      p4 == Swap(p3, pm, pr - 1)
      r == PartitionLoop(v, p4, pl, pr - 1, vp)
  IN [p |-> Swap(r.p, r.pi, pr - 1), pi |-> r.pi]

RECURSIVE InsertAt(_, _, _, _, _)
InsertAt(v, p, pl, pj, vi) ==
  IF pj > pl /\ v[vi] < v[p[pj - 1]]
  THEN InsertAt(v, [p EXCEPT ![pj] = p[pj - 1]], pl, pj - 1, vi)
  ELSE [p EXCEPT ![pj] = vi]

RECURSIVE InsertionSort(_, _, _, _, _)
InsertionSort(v, p, pl, pi, pr) ==
  IF pi > pr THEN p
  ELSE InsertionSort(v, InsertAt(v, p, pl, pi, p[pi]), pl, pi + 1, pr)

\* numpy argsort(kind="quicksort") of the keys v over the index range
\* pl..pr: introsort, which partitions a range of more than
\* SMALL_QUICKSORT + 1 elements and sorts a shorter one by insertion.  (Its
\* fall-back to heapsort needs more than 2 * floor(log2 n) nested
\* partitions, which no frame of fewer than 32 rows has.)
RECURSIVE AQuickSort(_, _, _, _)
AQuickSort(v, p, pl, pr) ==
  IF pr - pl > SMALL_QUICKSORT
  THEN LET r == Partition(v, p, pl, pr)
       IN AQuickSort(v, AQuickSort(v, r.p, pl, r.pi - 1), r.pi + 1, pr)
  ELSE InsertionSort(v, p, pl, pl + 1, pr)

Argsort(v) ==
  IF Len(v) = 0 THEN <<>>
  ELSE AQuickSort(v, [i \in 1..Len(v) |-> i], 1, Len(v))

\* a sort_values whose result is dropped
SortValuesNoop(df) == df

\* df.sort_values("date"): kind defaults to "quicksort"
SortValues(df) ==
  LET p == Argsort([i \in 1..Len(df) |-> df[i].date])
  IN [i \in 1..Len(df) |-> df[p[i]]]

RECURSIVE PickRows(_, _, _)
PickRows(df, keep, i) ==
  IF i > Len(df) THEN <<>>
  ELSE (IF i \in keep THEN <<df[i]>> ELSE <<>>) \o PickRows(df, keep, i + 1)

\* df.drop_duplicates(subset=["date"], keep="last")
DropDuplicatesLast(df) ==
  PickRows(df,
           {i \in 1..Len(df) : \A j \in (i + 1)..Len(df) : df[j].date # df[i].date},
           1)

\* df.head(n) in place of df.tail(n)
HeadRows(df, n) == IF Len(df) <= n THEN df ELSE SubSeq(df, 1, n)

\* df.tail(n), n > 0
TailRows(df, n) ==
  IF Len(df) <= n THEN df ELSE SubSeq(df, Len(df) - n + 1, Len(df))

\* pd.concat([a, b], ignore_index=True)
Concat(a, b) == a \o b

(***************************************************************************)
(* The two loaders.                                                        *)
(***************************************************************************)
\* The file at parquet_path is [state, cols, rows]: state is "missing" (no
\* such file), "corrupt" (pd.read_parquet raises) or "ok"; cols are the
\* column names after reset_index().

\* _load_parquet_series raises (lines 17-18, 20, 27, 33)
LoadRaises(f) ==
  \/ f.state = "missing"
  \/ f.state = "corrupt"
  \/ {"trade_time", "date"} \cap f.cols = {}
  \/ {"Close", "close"} \cap f.cols = {}

\* _load_parquet_series, when it returns
load_parquet_series(f) ==
  LET time_col == IF "trade_time" \in f.cols THEN "trade_time" ELSE "date"
      close_col == IF "Close" \in f.cols THEN "Close" ELSE "close"
      out == [i \in 1..Len(f.rows) |->
                [date |-> to_datetime(f.rows[i][time_col]),
                 Close |-> f.rows[i][close_col]]]
  IN DropDuplicatesLast(SortValues(DropNa(out)))

\* What `import akshare` and ak.stock_zh_a_hist_min_em do is [kind, cols,
\* rows]: kind is "import_error", "raises", "none" (the call returns None),
\* "uncoercible" (not a DataFrame, and pd.DataFrame(df) raises), "coercible"
\* (not a DataFrame, pd.DataFrame(df) is the table cols, rows) or "table".
\* The column names stand for the endpoint's: shijian for 时间, riqi for 日期,
\* shoupan for 收盘.

\* _fetch_today_1m_from_akshare raises (lines 43-47, 50, 67-68)
FetchRaises(api) ==
  \/ api.kind \in {"import_error", "raises"}
  \/ /\ api.kind \in {"coercible", "table"}
     /\ Len(api.rows) # 0
     /\ \/ {"shijian", "riqi"} \cap api.cols = {}
        \/ {"shoupan", "close"} \cap api.cols = {}

\* _fetch_today_1m_from_akshare, when it returns
fetch_today_1m_from_akshare(api) ==
  IF api.kind \in {"none", "uncoercible"} \/ Len(api.rows) = 0 THEN <<>>
  ELSE LET col_time == IF "shijian" \in api.cols THEN "shijian" ELSE "riqi"
           col_close == IF "shoupan" \in api.cols THEN "shoupan" ELSE "close"
           out == [i \in 1..Len(api.rows) |->
                     [date |-> to_datetime(api.rows[i][col_time]),
                      Close |-> to_numeric(api.rows[i][col_close])]]
       IN DropDuplicatesLast(SortValues(DropNa(out)))

\* main, lines 148-150; _ensure_datetime leaves a datetime column alone and
\* coerces any other
NormaliseMerged(df) ==
  DropDuplicatesLast(SortValues(DropNa(
    [i \in 1..Len(df) |-> [df[i] EXCEPT !.date = to_datetime(df[i].date)]])))

\* main, lines 152-153: the frame handed to to_csv
RowsToWrite(df, n) == IF n # 0 /\ n > 0 THEN TailRows(df, n) ELSE df

\* a main that reports a read error as success
ExitReadErrorAsSuccess == 1 - 1

\* main's return value when the load raises, line 127
ExitReadError == 1

\* main's return value after the CSV is written, line 159
ExitDone == 0

\* project_root/input, line 116
InputDir == <<"i", "n", "p", "u", "t">>

\* --tail default, line 102
DefaultTail == 2000

(***************************************************************************)
(* State.                                                                  *)
(***************************************************************************)
VARIABLES
  pc,              \* where main is: "start", "read", "loaded", "merged",
                   \* "normalised", "exit"
  args,            \* the parsed command line [symbol, data_dir, tail, use_akshare]
  parquet,         \* the file at parquet_path
  akshare,         \* what the AkShare import and call do
  csv,             \* the file at output_csv_path: [exists, rows]
  csv_at_start,    \* csv as it was when the run began
  symbol,          \* line 110
  parquet_path,    \* line 113
  output_csv_path, \* line 120
  local_df,        \* line 124
  today_df,        \* line 138
  merged,          \* lines 129-150 (before the tail of line 153)
  ak_symbol,       \* line 132
  fetch_calls,     \* calls of _fetch_today_1m_from_akshare so far
  fetched_rows,    \* whether line 141 ran
  writes,          \* calls of to_csv so far
  exit_code        \* main's return value once pc = "exit"

vars == <<pc, args, parquet, akshare, csv, csv_at_start, symbol, parquet_path,
          output_csv_path, local_df, today_df, merged, ak_symbol, fetch_calls,
          fetched_rows, writes, exit_code>>

env == <<args, parquet, akshare, csv_at_start>>

(***************************************************************************)
(* The inputs the model runs main on.                                      *)
(***************************************************************************)
SeqsUpTo(S, n) == UNION {[1..k -> S] : k \in 0..n}

\* (time cell, close cell) of a row of a parquet table
Pairs ==
  ({Null, Garbage} \cup (1..MaxRows)) \X {1} \cup (1..MaxRows) \X {Null, 2}

\* (time cell, close cell) of a row of an AkShare table
ApiPairs == Pairs \cup {<<1, Garbage>>}

Table(tc, cc, pairs) ==
  [cols |-> {tc, cc},
   rows |-> [i \in 1..Len(pairs) |-> (tc :> pairs[i][1]) @@ (cc :> pairs[i][2])]]

\* a table with all four columns; the second pair fills the columns the
\* loaders pass over
Table4(tc, cc, tc2, cc2, pairs, pairs2) ==
  [cols |-> {tc, cc, tc2, cc2},
   rows |-> [i \in 1..Len(pairs) |->
               (tc :> pairs[i][1]) @@ (cc :> pairs[i][2])
                 @@ (tc2 :> pairs2[i][1]) @@ (cc2 :> pairs2[i][2])]]

File(state, t) == [state |-> state, cols |-> t.cols, rows |-> t.rows]
Api(kind, t) == [kind |-> kind, cols |-> t.cols, rows |-> t.rows]
NoTable == [cols |-> {}, rows |-> <<>>]

\* timestamps a..b in order, all with close c
Ramp(a, b, c) == [i \in 1..(b - a + 1) |-> <<a + i - 1, c>>]

\* every table of at most MaxRows rows under the usual column names
AnyParquet == {File("ok", Table("date", "Close", ps)) : ps \in SeqsUpTo(Pairs, MaxRows)}

\* the other shapes a source file has
OddParquet ==
  {File("missing", NoTable), File("corrupt", NoTable)}
    \cup {File("ok", Table("trade_time", "close", ps)) : ps \in SeqsUpTo(Pairs, 1)}
    \cup {File("ok", Table4("trade_time", "Close", "date", "close", <<p>>, <<q>>)) :
            p \in {<<1, 1>>}, q \in {<<2, 2>>, <<Null, Null>>}}
    \cup {File("ok", Table(c, c, ps)) :
            c \in {"date", "trade_time", "Close", "close", "index"},
            ps \in {<<>>, <<<<1, 1>>>>}}

SomeParquet ==
  {File("ok", Table("date", "Close", Ramp(1, k, 1))) : k \in {0, MaxRows}}

AnyApi == {Api("table", Table("shijian", "shoupan", ps)) : ps \in SeqsUpTo(ApiPairs, MaxRows)}

OddApi ==
  {Api(k, NoTable) : k \in {"import_error", "raises", "none", "uncoercible", "table"}}
    \cup {Api(k, Table("riqi", "close", <<<<1, 2>>>>)) : k \in {"uncoercible", "coercible"}}
    \cup {Api("table", Table4("shijian", "shoupan", "riqi", "close", <<p>>, <<q>>)) :
            p \in {<<1, 2>>}, q \in {<<2, 1>>}}
    \cup {Api("table", Table(c, c, <<<<1, 2>>>>)) :
            c \in {"shijian", "riqi", "shoupan", "close", "index"}}

SomeApi == {Api("table", Table("shijian", "shoupan", <<<<MaxRows, 2>>, <<1, 2>>>>)), Api("raises", NoTable)}

Tails == (-1..MaxTail) \cup {DefaultTail}

Code5 == <<"6", "0", "0", "8", "6">>

\* --symbol values: a letter or five digits, then up to MaxSymLen free
\* characters (U+0663 is ARABIC-INDIC DIGIT THREE) and one of the usual
\* endings, alone or after a blank or a tab
Symbols ==
  {lead \o pre \o s \o ext :
     lead \in {<<>>, <<" ">>, <<"\t">>},
     pre \in {<<"x">>, Code5},
     s \in SeqsUpTo({"9", "a", ".", " ", "U+0663"}, MaxSymLen),
     ext \in {<<>>, DotParquet, DotPARQUET, <<".", "S", "H">>,
              <<".", "s", "z", " ">>, <<"\r", "\n">>}}

SomeSymbols == {Code5 \o <<"9", ".", "S", "H">>, <<"a", "b", "c">>}

DataDir == <<"d", "a", "t", "a">>

Args(sym, n, ak) ==
  [symbol |-> sym, data_dir |-> DataDir, tail |-> n, use_akshare |-> ak]

OldCsv == [exists |-> TRUE, rows |-> <<[date |-> 1, Close |-> 1]>>]
NoCsv == [exists |-> FALSE, rows |-> <<>>]

(***************************************************************************)
(* main.                                                                   *)
(***************************************************************************)
\* main is entered with the command line a, the source file f, the AkShare
\* behaviour api and the output file c
Start(a, f, api, c) ==
  /\ args = a
  /\ parquet = f
  /\ akshare = api
  /\ csv = c
  /\ csv_at_start = c
  /\ pc = "start"
  /\ symbol = <<>>
  /\ parquet_path = <<>>
  /\ output_csv_path = <<>>
  /\ local_df = <<>>
  /\ today_df = <<>>
  /\ merged = <<>>
  /\ ak_symbol = <<>>
  /\ fetch_calls = 0
  /\ fetched_rows = FALSE
  /\ writes = 0
  /\ exit_code = 0

\* every usual source file, with and without a fetch, which then raises
InitLoad ==
  \E n \in Tails, ak \in BOOLEAN, f \in AnyParquet :
    Start(Args(Code5 \o <<"9", ".", "S", "H">>, n, ak), f, Api("raises", NoTable), NoCsv)

\* the other source files, over an output file that is there or not
InitOdd ==
  \E sym \in SomeSymbols, n \in Tails, ak \in BOOLEAN, f \in OddParquet,
     a \in SomeApi, c \in {NoCsv, OldCsv} :
    Start(Args(sym, n, ak), f, a, c)

\* fetches of every shape, merged into a short sorted source
InitFetch ==
  \E n \in Tails, f \in SomeParquet, a \in AnyApi \cup OddApi :
    Start(Args(Code5 \o <<"9", ".", "S", "H">>, n, TRUE), f, a, NoCsv)

\* long regular series: the source holds 1..m, the fetch returns a..b
InitLong ==
  \E n \in {0, DefaultTail}, m \in (MaxLong - 5)..MaxLong, a \in 1..MaxLong,
     b \in (MaxLong - 1)..MaxLong :
    Start(Args(Code5 \o <<"9">>, n, TRUE),
          File("ok", Table("date", "Close", Ramp(1, m, 1))),
          Api("table", Table("shijian", "shoupan", Ramp(a, b, 2))), NoCsv)

\* symbols of every shape
InitSymbol ==
  \E sym \in Symbols, ak \in BOOLEAN,
     f \in {File("missing", NoTable), File("ok", Table("date", "Close", <<<<1, 1>>>>))},
     a \in SomeApi :
    Start(Args(sym, DefaultTail, ak), f, a, NoCsv)

Init == InitLoad \/ InitOdd \/ InitFetch \/ InitLong \/ InitSymbol

\* lines 108-120
Paths ==
  /\ pc = "start"
  /\ symbol' = Strip(args.symbol)
  /\ parquet_path' = PathJoin(args.data_dir, ParquetName(symbol'))
  /\ output_csv_path' = PathJoin(InputDir, BaseName(ParquetName(symbol')) \o DotCsv)
  /\ pc' = "read"
  /\ UNCHANGED <<env, csv, local_df, today_df, merged, ak_symbol, fetch_calls,
                 fetched_rows, writes, exit_code>>

\* lines 122-127, the load raises
LoadFails ==
  /\ pc = "read"
  /\ LoadRaises(parquet)
  /\ exit_code' = ExitReadError
  /\ pc' = "exit"
  /\ UNCHANGED <<env, csv, symbol, parquet_path, output_csv_path, local_df,
                 today_df, merged, ak_symbol, fetch_calls, fetched_rows, writes>>

\* lines 122-129, the load returns
Loads ==
  /\ pc = "read"
  /\ ~LoadRaises(parquet)
  /\ local_df' = load_parquet_series(parquet)
  /\ merged' = local_df'
  /\ pc' = "loaded"
  /\ UNCHANGED <<env, csv, symbol, parquet_path, output_csv_path, today_df,
                 ak_symbol, fetch_calls, fetched_rows, writes, exit_code>>

\* line 131, without --use-akshare
SkipsAkshare ==
  /\ pc = "loaded"
  /\ ~args.use_akshare
  /\ pc' = "merged"
  /\ UNCHANGED <<env, csv, symbol, parquet_path, output_csv_path, local_df,
                 today_df, merged, ak_symbol, fetch_calls, fetched_rows, writes,
                 exit_code>>

\* lines 132-134
NoNumericCode ==
  /\ pc = "loaded"
  /\ args.use_akshare
  /\ ak_symbol' = symbol_to_akshare_6(symbol)
  /\ ak_symbol' = <<>>
  /\ pc' = "merged"
  /\ UNCHANGED <<env, csv, symbol, parquet_path, output_csv_path, local_df,
                 today_df, merged, fetch_calls, fetched_rows, writes, exit_code>>

\* lines 132-138 and 144-146, the fetch raises
FetchFails ==
  /\ pc = "loaded"
  /\ args.use_akshare
  /\ ak_symbol' = symbol_to_akshare_6(symbol)
  /\ ak_symbol' # <<>>
  /\ fetch_calls' = fetch_calls + 1
  /\ FetchRaises(akshare)
  /\ pc' = "merged"
  /\ UNCHANGED <<env, csv, symbol, parquet_path, output_csv_path, local_df,
                 today_df, merged, fetched_rows, writes, exit_code>>

\* lines 132-140 and 142-143, the fetch returns no rows
FetchesNothing ==
  /\ pc = "loaded"
  /\ args.use_akshare
  /\ ak_symbol' = symbol_to_akshare_6(symbol)
  /\ ak_symbol' # <<>>
  /\ fetch_calls' = fetch_calls + 1
  /\ ~FetchRaises(akshare)
  /\ today_df' = fetch_today_1m_from_akshare(akshare)
  /\ ~(Len(today_df') > 0)
  /\ pc' = "merged"
  /\ UNCHANGED <<env, csv, symbol, parquet_path, output_csv_path, local_df,
                 merged, fetched_rows, writes, exit_code>>

\* lines 132-141, the fetch returns rows
FetchesRows ==
  /\ pc = "loaded"
  /\ args.use_akshare
  /\ ak_symbol' = symbol_to_akshare_6(symbol)
  /\ ak_symbol' # <<>>
  /\ fetch_calls' = fetch_calls + 1
  /\ ~FetchRaises(akshare)
  /\ today_df' = fetch_today_1m_from_akshare(akshare)
  /\ Len(today_df') > 0
  /\ merged' = Concat(local_df, today_df')
  /\ fetched_rows' = TRUE
  /\ pc' = "merged"
  /\ UNCHANGED <<env, csv, symbol, parquet_path, output_csv_path, local_df,
                 writes, exit_code>>

\* lines 148-150
Normalises ==
  /\ pc = "merged"
  /\ merged' = NormaliseMerged(merged)
  /\ pc' = "normalised"
  /\ UNCHANGED <<env, csv, symbol, parquet_path, output_csv_path, local_df,
                 today_df, ak_symbol, fetch_calls, fetched_rows, writes, exit_code>>

\* lines 152-159
Writes ==
  /\ pc = "normalised"
  /\ csv' = [exists |-> TRUE, rows |-> RowsToWrite(merged, args.tail)]
  /\ writes' = writes + 1
  /\ exit_code' = ExitDone
  /\ pc' = "exit"
  /\ UNCHANGED <<env, symbol, parquet_path, output_csv_path, local_df, today_df,
                 merged, ak_symbol, fetch_calls, fetched_rows>>

Next ==
  \/ Paths
  \/ LoadFails
  \/ Loads
  \/ SkipsAkshare
  \/ NoNumericCode
  \/ FetchFails
  \/ FetchesNothing
  \/ FetchesRows
  \/ Normalises
  \/ Writes

Spec == Init /\ [][Next]_vars

(***************************************************************************)
(* Vocabulary of the properties.                                           *)
(***************************************************************************)
Exited == pc = "exit"
Succeeded == pc = "exit" /\ writes = 1

\* the source cannot be read: no file, a read error, no time column or no
\* close column
SourceUnreadable ==
  \/ parquet.state \in {"missing", "corrupt"}
  \/ "trade_time" \notin parquet.cols /\ "date" \notin parquet.cols
  \/ "Close" \notin parquet.cols /\ "close" \notin parquet.cols

Dates(df) == {df[i].date : i \in 1..Len(df)}

DistinctDates(df) ==
  \A i, j \in 1..Len(df) : df[i].date = df[j].date => i = j

Ascending(df) ==
  \A i \in 1..(Len(df) - 1) : df[i].date <= df[i + 1].date

\* out is the last Len(out) rows of df
IsSuffix(out, df) ==
  /\ Len(out) <= Len(df)
  /\ \A i \in 1..Len(out) : out[i] = df[Len(df) - Len(out) + i]

\* what the run writes when nothing is merged into the source
ParquetOnlyRows ==
  RowsToWrite(NormaliseMerged(load_parquet_series(parquet)), args.tail)

\* the endpoint's answer holds no row with both a timestamp and a price
ApiHasNoUsableRow ==
  \/ akshare.kind \in {"none", "uncoercible"}
  \/ /\ akshare.kind \in {"coercible", "table"}
     /\ \/ akshare.rows = <<>>
        \/ /\ ~FetchRaises(akshare)
           /\ LET tc == IF "shijian" \in akshare.cols THEN "shijian" ELSE "riqi"
                  cc == IF "shoupan" \in akshare.cols THEN "shoupan" ELSE "close"
              IN \A i \in 1..Len(akshare.rows) :
                   akshare.rows[i][tc] < 1 \/ akshare.rows[i][cc] < 1

\* s has a digit before its first dot
DigitBeforeFirstDot(s) ==
  \E i \in 1..Len(s) : s[i] \in Digits /\ \A j \in 1..(i - 1) : s[j] # "."

AllDigits(s) == \A i \in 1..Len(s) : s[i] \in Digits

\* six digits, alone or followed by a dot and a suffix, inside whitespace
AcceptedForm(sym) ==
  LET s == Strip(sym)
  IN /\ Len(s) >= 6
     /\ \A i \in 1..6 : s[i] \in Digits
     /\ Len(s) = 6 \/ s[7] = "."

\* line 132 has run
CodeDerived ==
  /\ args.use_akshare
  /\ pc \in {"merged", "normalised"} \/ (pc = "exit" /\ writes = 1)

\* the symbol without a parquet extension it ends in
Stem(sym) ==
  IF EndsWith(sym, DotParquet) \/ EndsWith(sym, DotPARQUET)
  THEN SubSeq(sym, 1, Len(sym) - Len(DotParquet))
  ELSE sym

(***************************************************************************)
(* C1.  When the source parquet file does not exist the run ends with exit *)
(* code 1 and writes no CSV: a CSV already at the output path stays as it  *)
(* was, whatever --tail and --use-akshare are.                             *)
(***************************************************************************)
C1_MissingSourceExitsOne ==
  parquet.state = "missing" =>
    /\ pc \in {"start", "read", "exit"}
    /\ writes = 0
    /\ csv = csv_at_start
    /\ pc = "exit" => exit_code = 1

C1_Witness ==
  /\ Exited
  /\ parquet.state = "missing"
  /\ csv_at_start.exists
  /\ csv.exists
  /\ args.use_akshare
  /\ args.tail = 0

(***************************************************************************)
(* C2.  When fetched rows are merged, the output has one row per timestamp *)
(* and, at every timestamp that the local and the fetched series share,    *)
(* the Close of the fetched row.                                           *)
(***************************************************************************)
C2_MergeKeepsFetched ==
  (Succeeded /\ fetched_rows) =>
    /\ DistinctDates(csv.rows)
    /\ \A i \in 1..Len(csv.rows) : \A j \in 1..Len(today_df) :
         (csv.rows[i].date = today_df[j].date /\ csv.rows[i].date \in Dates(local_df))
           => csv.rows[i].Close = today_df[j].Close

(***************************************************************************)
(* C3.  As claimed: for every integer --tail N and merged, deduplicated    *)
(* series of T rows the CSV holds exactly min(N, T) rows, the last ones.   *)
(***************************************************************************)
C3_TailKeepsMin ==
  Succeeded =>
    /\ Len(csv.rows) = Min({args.tail, Len(merged)})
    /\ IsSuffix(csv.rows, merged)

(***************************************************************************)
(* C3, amended.  For every --tail N > 0 the CSV holds exactly min(N, T)    *)
(* rows, the last ones of the series; for N <= 0 it holds all T rows.      *)
(***************************************************************************)
C3_TailKeepsMinWhenPositive ==
  Succeeded =>
    /\ args.tail > 0 => Len(csv.rows) = Min({args.tail, Len(merged)})
    /\ args.tail <= 0 => Len(csv.rows) = Len(merged)
    /\ IsSuffix(csv.rows, merged)

C3_Witness ==
  /\ Succeeded
  /\ fetched_rows
  /\ args.tail > 0
  /\ args.tail < Len(merged)
  /\ Len(csv.rows) = args.tail

(***************************************************************************)
(* C4.  Every CSV written is sorted ascending by date, with or without     *)
(* merged rows and whatever the row order of the source and of the fetch.  *)
(***************************************************************************)
C4_OutputAscending == Succeeded => Ascending(csv.rows)

C4_Witness ==
  /\ Succeeded
  /\ fetched_rows
  /\ Len(csv.rows) >= 2
  /\ "shijian" \in akshare.cols
  /\ Len(akshare.rows) = 2
  /\ akshare.rows[1]["shijian"] > akshare.rows[2]["shijian"]

(***************************************************************************)
(* C5.  With --use-akshare, a fetch that fails (no library, the call       *)
(* raises, no time or close column) or returns no rows is not fatal: the   *)
(* run exits 0 and writes what it would write without --use-akshare.       *)
(***************************************************************************)
C5_FetchFailureNotFatal ==
  (Exited /\ args.use_akshare /\ ~SourceUnreadable
     /\ (FetchRaises(akshare) \/ ApiHasNoUsableRow)) =>
    /\ exit_code = 0
    /\ writes = 1
    /\ csv.exists
    /\ csv.rows = ParquetOnlyRows

C5_Witness ==
  /\ Succeeded
  /\ fetch_calls = 1
  /\ akshare.kind = "table"
  /\ akshare.rows # <<>>
  /\ FetchRaises(akshare)
  /\ csv.rows # <<>>

(***************************************************************************)
(* C6.  main ends with exit code 1 exactly when the source cannot be read  *)
(* (file missing, read error, no time column, no close column); every      *)
(* other run ends with exit code 0 and the CSV written; no run ends        *)
(* otherwise.                                                              *)
(***************************************************************************)
C6_ExitCode ==
  Exited =>
    /\ exit_code \in {0, 1}
    /\ exit_code = 1 <=> SourceUnreadable
    /\ exit_code = 0 => (writes = 1 /\ csv.exists)

C6_Witness ==
  /\ Exited
  /\ exit_code = 1
  /\ parquet.state = "ok"
  /\ parquet.cols = {"date"}
  /\ parquet.rows # <<>>

(***************************************************************************)
(* C7.  The file read is <data-dir>/<symbol>.parquet and the CSV is        *)
(* input/<symbol>.csv, where a trimmed symbol that ends in .parquet or     *)
(* .PARQUET gets no second extension and gives the CSV its name without    *)
(* that extension.                                                         *)
(***************************************************************************)
C7_Paths ==
  pc # "start" =>
    /\ parquet_path = args.data_dir \o <<"/">> \o Stem(Strip(args.symbol)) \o DotParquet
    /\ output_csv_path = InputDir \o <<"/">> \o Stem(Strip(args.symbol)) \o DotCsv

(***************************************************************************)
(* C8.  As claimed: for an accepted symbol form the code is its six        *)
(* digits, and for every symbol the code is six digit characters.          *)
(***************************************************************************)
C8_SixDigits ==
  CodeDerived =>
    /\ AcceptedForm(args.symbol) => ak_symbol = SubSeq(Strip(args.symbol), 1, 6)
    /\ AllDigits(ak_symbol)
    /\ Len(ak_symbol) = 6

(***************************************************************************)
(* C8, amended.  For an accepted symbol form the code is its six digits,   *)
(* and for every symbol the code consists of digit characters only (it may *)
(* be empty, shorter or longer than six).                                  *)
(***************************************************************************)
C8_DigitsOnly ==
  CodeDerived =>
    /\ AcceptedForm(args.symbol) => ak_symbol = SubSeq(Strip(args.symbol), 1, 6)
    /\ AllDigits(ak_symbol)

C8_Witness ==
  /\ CodeDerived
  /\ AcceptedForm(args.symbol)
  /\ Strip(args.symbol) # args.symbol
  /\ Len(Strip(args.symbol)) > 6
  /\ Upper(args.symbol) # args.symbol
  /\ Len(ak_symbol) = 6

(***************************************************************************)
(* C9.  The fetch is attempted at most once, and only once the source is   *)
(* loaded, with --use-akshare, for a symbol with a digit before its first  *)
(* dot; a loaded run with --use-akshare whose symbol has no such digit     *)
(* makes no fetch, writes the parquet-only output and exits 0.             *)
(***************************************************************************)
C9_FetchAtMostOnce ==
  /\ fetch_calls <= 1
  /\ fetch_calls = 1 =>
       /\ pc \in {"merged", "normalised", "exit"}
       /\ ~SourceUnreadable
       /\ args.use_akshare
       /\ DigitBeforeFirstDot(args.symbol)
  /\ (Exited /\ ~SourceUnreadable /\ args.use_akshare
        /\ ~DigitBeforeFirstDot(args.symbol)) =>
       /\ fetch_calls = 0
       /\ exit_code = 0
       /\ writes = 1
       /\ csv.rows = ParquetOnlyRows

C9_Witness ==
  /\ Succeeded
  /\ args.use_akshare
  /\ ~DigitBeforeFirstDot(args.symbol)
  /\ \E i \in 1..Len(args.symbol) : args.symbol[i] \in Digits
  /\ fetch_calls = 0
  /\ csv.rows # <<>>

(***************************************************************************)
(* C10.  In a run that merges no fetched rows, normalising the loaded      *)
(* series again changes nothing: the CSV is the last N rows of the loaded  *)
(* series (all of them when N <= 0), with no missing date or Close and no  *)
(* timestamp twice.                                                        *)
(***************************************************************************)
C10_RenormaliseIsIdentity ==
  /\ (pc \in {"merged", "normalised"} /\ ~fetched_rows) => merged = local_df
  /\ (Succeeded /\ ~fetched_rows) =>
       /\ IsSuffix(csv.rows, local_df)
       /\ Len(csv.rows) =
            IF args.tail > 0 THEN Min({args.tail, Len(local_df)}) ELSE Len(local_df)
       /\ \A i \in 1..Len(csv.rows) :
            csv.rows[i].date # NaT /\ csv.rows[i].Close # NaN
       /\ DistinctDates(csv.rows)

C10_Witness ==
  /\ Succeeded
  /\ ~fetched_rows
  /\ "date" \in parquet.cols
  /\ Len(parquet.rows) = 2
  /\ parquet.rows[1]["date"] > parquet.rows[2]["date"]
  /\ parquet.rows[2]["date"] >= 1
  /\ Len(local_df) = 2
  /\ Len(csv.rows) = 1
====
